---------------------------- MODULE Spec2Model ----------------------------
(***************************************************************************)
(* A model of the discord-radio pipeline (scripts/generate-radio.js and    *)
(* the second script of the repository, src/unnamed/part_000): the message *)
(* pager with its rate-limit loop, the article batch behind the            *)
(* concurrency limiter, the TTS request with its response normalizer, the  *)
(* dialogue synthesizer and the main run of both scripts.                  *)
(*                                                                         *)
(* Each component has its own specification (SpecPager, SpecBatch,         *)
(* SpecTts, SpecRun) over one set of variables; the variables of the       *)
(* components a specification does not run keep their idle values.         *)
(***************************************************************************)
EXTENDS Integers, Sequences, FiniteSets, TLC

(***************************************************************************)
(* Bounds of the model.                                                    *)
(***************************************************************************)
\* largest channel history (number of messages)
MaxMsgs == 4
\* timestamps are 0 .. MaxTs
MaxTs == 3
\* messages per page: the code asks for `limit: 100` and stops on a page
\* shorter than 100; the model scales that page size to PageLimit
PageLimit == 2
\* the attempt counter of one request saturates here (the code has no counter)
MaxAttempts == 2
\* source channels of one run
MaxChannels == 2
\* dialogue segments of one script
MaxTurns == 2
\* URLs of one article batch
MaxUrls == 3
\* MAX_CONCURRENCY (default 4), the limiter bound
maxConcurrency == 2
\* MAX_TEXT_CHARS (default 2000), scaled
maxArticleChars == 2
\* characters of the text of one segment
MaxTextLen == 3
\* characters of one TTS request of part_000 (800), scaled
ChunkSize == 2
\* lines of one dialogue script
MaxLines == 3
\* ticks of the clock in one hour
TicksPerHour == 2
\* the clock reads from day FirstDay of 1970 on (day 57 is February 27),
\* for MaxDays days
FirstDay == 57
MaxDays == 3
\* characters of the path of a URL
MaxPathLen == 3
\* parameters of the query of a URL
MaxParams == 2
\* threads of the forum
MaxThreads == 2
\* messages a thread has in the window
MaxThreadMsgs == 2
\* messages of a channel in the window, for the URL selection
MaxShared == 3
\* distinct normalized URLs
MaxUrlNames == 3
\* MAX_URLS (20 by default), scaled down
maxArticleCount == 2
\* `for (let i = 0; i < 10; i++)`: archived-thread pages listed at most
ArchivedPageCap == 10

VARIABLES
    \* ---- message pager (fetchChannelMessagesInRange + discordApiRequest)
    history,      \* the channel history: message id i has timestamp history[i]
    srcMode,      \* "honest": pages follow the cursor; "any": the source
                  \* ignores the cursor and answers with any selection
    startUtc,     \* window start
    endUtc,       \* window end
    before,       \* pagination cursor, 0 = undefined
    collected,    \* the list the pager returns
    pagerPc,      \* "idle" | "request" | "awaiting" | "sleeping" | "returned" | "failed"
    attempt,      \* fetches made for the current page request (saturating)
    sleepFor,     \* seconds of the current rate-limit sleep
    pagesServed,  \* pages (2xx answers) received so far
    lastPage,     \* the page processed last, sorted (<<>> before the first)
    retryHeader,  \* retry-after of the 429 being slept on, -1 for none
    \* ---- the run (main of both scripts)
    runProg,      \* "radio": scripts/generate-radio.js; "legacy": part_000
    runMode,      \* AGGREGATION_MODE: "single" | "per_channel"
    dateArg,      \* --date: "none" | "valid" | "nan" | "rollover"
    nChannels,    \* number of channels to fetch
    runPc,        \* position of main
    chan,         \* channel being fetched or aggregated, 1..nChannels
    listingFailed,    \* channels whose message listing raised
    listingRequests,  \* channels for which a message listing was started
    materials,    \* channels with an entry in perChannelMaterials
    scriptsBuilt, \* narration scripts obtained
    synthStarted, \* speech syntheses that issued a TTS request
    segmentCount, \* segments of the synthesis under way
    episodes,     \* episode files written
    outputsSaved, \* saveRunOutput calls completed
    \* ---- the article batch (pLimit + fetchArticleContent)
    urls,         \* limitedUrls: urls[i].isX says whether isXStatusUrl holds
    taskPc,       \* per URL: "queued" | "embed" | "page" | "body" | "done" | "raised"
    result,       \* per URL: the Article returned (NoArticle before)
    embedFailed,  \* URLs whose oEmbed request failed
    pageFailed,   \* URLs whose page fetch, body read or parse failed
    queue,        \* the limiter's queue of waiting URLs
    activeCount,  \* the limiter's count of running calls
    batchPc,      \* "idle" | "running" | "collected" | "failed"
    articles,     \* the article list kept for the channel
    firstDone,    \* the URL whose call returned first, 0 while none has
    \* ---- one synthesis (minimaxT2ARequest and its callers)
    ttsProg,      \* "radio" (generate-radio.js) | "legacy" (part_000)
    segments,     \* the parsed script: [speaker, len] per segment
    segIdx,       \* position of the segment loop
    chunkIdx,     \* position of the chunk loop
    index,        \* the segment ordinal (`index`)
    ttsRequest,   \* the arguments of the request in flight
    ttsResp,      \* the answer being handled
    ttsAttempt,   \* attempts of the current request, saturating at MaxAttempts
    ttsSleep,     \* seconds of the current sleep
    buf,          \* the buffer minimaxT2ARequest returned
    files,        \* `files`: the paths of the segment files, in push order
    episode,      \* the streams of the episode file in order, <<>> while there is none
    disk,         \* the out directory: the bytes at each segment path
    listFile,     \* the entries of the ffmpeg list file, <<>> while there is none
    ffmpegStarted, \* ffmpeg has been spawned
    ttsPc,        \* "start" | "request" | "awaiting" | "sleeping" | "fetchingUrl"
                  \* | "received" | "pacing" | "concat" | "ffmpeg" | "done" | "failed"
    \* ---- parseDialogueScript
    script,       \* the script, a string
    lines,        \* the trimmed non-empty lines
    lineIdx,      \* position of the line loop
    lastSpeaker,  \* `lastSpeaker`
    lineSpeakers, \* the speaker given to each line read so far
    turns,        \* `segments`: the {speaker, text} pushed so far
    parsePc,      \* "split" | "loop" | "done"
    \* ---- the time window
    now,          \* `new Date()`
    winEnd,       \* endUtc
    winStart,     \* startUtc
    winPc,        \* "start" | "done"
    \* ---- normalizeUrl
    rawUrl,       \* the argument
    urlResult,    \* the string returned
    urlPc,        \* "start" | "returned" | "raised"
    \* ---- the forum fan-out (fetchForumChannelMessagesInRange)
    forumPc,      \* "channel" | "active" | "archived" | "fetch" | "done" | "raised"
    guildId,      \* TRUE when the channel object gave a guild_id
    threads,      \* keys of the `threads` Map, in insertion order
    archivedI,    \* `i` of the archived-listing loop
    archivedBefore, \* `before` of the archived-listing loop
    threadIdx,    \* position of the message loop in threadIds
    threadOutcome,  \* per thread: what its message fetch did
    allMessages,  \* the list being built
    forumResult,  \* the list returned
    forumLog,     \* discovery stages that logged a failure
    archivedRequests, \* archived-thread listing requests made
    archivedAnswer,   \* what the last archived-thread listing answered
    listed,       \* thread ids by the way the listings gave them
    \* ---- the URLs of a channel (main)
    shared,       \* the channel's messages of the window, by id
    messages,     \* what fetchChannelMessagesInRange returned
    extracted,    \* what filterAndExtractFromMessages returned
    allUrls,      \* the deduplicated URLs
    limitedUrls,  \* the URLs after the cut
    fetchCalls,   \* the URLs fetchArticleContent was called with
    selPc         \* "listing" | "extract" | "batch" | "fetching"

pagerVars == <<history, srcMode, startUtc, endUtc, before, collected, pagerPc,
               attempt, sleepFor, pagesServed, lastPage, retryHeader>>

runVars == <<runProg, runMode, dateArg, nChannels, runPc, chan, listingFailed,
             listingRequests, materials, scriptsBuilt, synthStarted,
             segmentCount, episodes, outputsSaved>>

batchVars == <<urls, taskPc, result, embedFailed, pageFailed, queue,
               activeCount, batchPc, articles, firstDone>>

ttsVars == <<ttsProg, segments, segIdx, chunkIdx, index, ttsRequest, ttsResp,
             ttsAttempt, ttsSleep, buf, files, episode, disk, listFile,
             ffmpegStarted, ttsPc>>

parseVars == <<script, lines, lineIdx, lastSpeaker, lineSpeakers, turns, parsePc>>

windowVars == <<now, winEnd, winStart, winPc>>

urlVars == <<rawUrl, urlResult, urlPc>>

forumVars == <<forumPc, guildId, threads, archivedI, archivedBefore,
               threadIdx, threadOutcome, allMessages, forumResult, forumLog,
               archivedRequests, archivedAnswer, listed>>

selectVars == <<shared, messages, extracted, allUrls, limitedUrls, fetchCalls,
                selPc>>

vars == <<pagerVars, runVars, batchVars, ttsVars, parseVars, windowVars,
          urlVars, forumVars, selectVars>>

-----------------------------------------------------------------------------
(***************************************************************************)
(* Generic helpers.                                                        *)
(***************************************************************************)
Min(a, b) == IF a <= b THEN a ELSE b

Range(s) == {s[i] : i \in 1..Len(s)}

-----------------------------------------------------------------------------
(***************************************************************************)
(* The message source and the pager.                                       *)
(***************************************************************************)
Ts == 0..MaxTs

Msg(i, h) == [id |-> i, ts |-> h[i]]

Histories == UNION {[1..n -> Ts] : n \in 0..MaxMsgs}

HistoryMsgs(h) == {Msg(i, h) : i \in DOMAIN h}

\* the ids a request with cursor b may return: older than b, or all when the
\* request carries no `before`
OlderIds(h, b) == {i \in DOMAIN h : b = 0 \/ i < b}

\* the well-behaved source: the (up to PageLimit) newest messages strictly
\* older than the cursor, newest first
RECURSIVE NewestFirst(_, _, _)
NewestFirst(h, ids, n) ==
    IF n = 0 \/ ids = {} THEN <<>>
    ELSE LET top == CHOOSE i \in ids : \A j \in ids : j <= i
         IN  <<Msg(top, h)>> \o NewestFirst(h, ids \ {top}, n - 1)

HonestPage(h, b) == NewestFirst(h, OlderIds(h, b), PageLimit)

\* page.sort((a, b) => new Date(a.timestamp) - new Date(b.timestamp)):
\* a stable ascending sort by timestamp
InsertByTs(s, m) ==
    LET k == Cardinality({i \in 1..Len(s) : s[i].ts <= m.ts})
    IN  SubSeq(s, 1, k) \o <<m>> \o SubSeq(s, k + 1, Len(s))

RECURSIVE SortByTimestamp(_)
SortByTimestamp(page) ==
    IF page = <<>> THEN <<>>
    ELSE InsertByTs(SortByTimestamp(SubSeq(page, 1, Len(page) - 1)), page[Len(page)])

\* mutant: the window end taken as inclusive
InWindowEndInclusive(m, s, e) == m.ts >= s /\ m.ts <= e

\* if (ts >= startUtc && ts < endUtc) collected.push(msg)
InWindow(m, s, e) == m.ts >= s /\ m.ts < e

RECURSIVE SelectInWindow(_, _, _)
SelectInWindow(page, s, e) ==
    IF page = <<>> THEN <<>>
    ELSE (IF InWindow(page[1], s, e) THEN <<page[1]>> ELSE <<>>)
         \o SelectInWindow(Tail(page), s, e)

\* if (ts < startUtc) reachedOlderThanStart = true
ReachedOlderThanStart(page, s) == \E i \in 1..Len(page) : page[i].ts < s

\* mutant: the cursor is not moved
NextCursorStale(sorted) == before

\* mutant: the cursor is the newest message of the page
NextCursorNewest(sorted) == sorted[Len(sorted)].id

\* before = page[0].id, read after the sort
NextCursor(sorted) == sorted[1].id

\* mutant: only a short page ends the pagination
PagerStopsOnShortOnly(sorted, s) == Len(sorted) < PageLimit

\* if (reachedOlderThanStart) break; if (page.length < 100) break;
PagerStops(sorted, s) == ReachedOlderThanStart(sorted, s) \/ Len(sorted) < PageLimit

\* Number(res.headers.get('retry-after')) || 1, the header being absent (-1)
\* or a number of seconds
DiscordRetryAfter(header) == IF header = -1 \/ header = 0 THEN 1 ELSE header

RetryHeaders == {-1, 0, 1, 2}

InitPager ==
    /\ history \in Histories
    /\ srcMode \in {"honest", "any"}
    /\ startUtc = 1
    /\ endUtc = MaxTs
    /\ before = 0
    /\ collected = <<>>
    /\ pagerPc = "request"
    /\ attempt = 0
    /\ sleepFor = 0
    /\ pagesServed = 0
    /\ lastPage = <<>>
    /\ retryHeader = -1

\* discordApiRequest: `await fetch(url, ...)` for the current cursor
PagerIssue ==
    /\ pagerPc = "request"
    /\ pagerPc' = "awaiting"
    /\ attempt' = 1
    /\ UNCHANGED <<history, srcMode, startUtc, endUtc, before, collected,
                   sleepFor, pagesServed, lastPage, retryHeader>>

\* res.status === 429: compute the delay and sleep
PagerRateLimited ==
    /\ pagerPc = "awaiting"
    /\ \E header \in RetryHeaders :
          /\ retryHeader' = header
          /\ sleepFor' = DiscordRetryAfter(header)
    /\ pagerPc' = "sleeping"
    /\ UNCHANGED <<history, srcMode, startUtc, endUtc, before, collected,
                   attempt, pagesServed, lastPage>>

\* mutant: after the sleep the pagination starts over from the newest page
PagerRetryFromStart ==
    /\ pagerPc = "sleeping"
    /\ pagerPc' = "request"
    /\ before' = 0
    /\ sleepFor' = 0
    /\ retryHeader' = -1
    /\ UNCHANGED <<history, srcMode, startUtc, endUtc, collected, attempt,
                   pagesServed, lastPage>>

\* mutant: a capped retry loop, the request fails at the cap
PagerRetryCapped ==
    /\ pagerPc = "sleeping"
    /\ pagerPc' = IF attempt >= MaxAttempts THEN "failed" ELSE "awaiting"
    /\ attempt' = Min(attempt + 1, MaxAttempts)
    /\ sleepFor' = 0
    /\ retryHeader' = -1
    /\ UNCHANGED <<history, srcMode, startUtc, endUtc, before, collected,
                   pagesServed, lastPage>>

\* `continue`: the same url is fetched again
PagerRetry ==
    /\ pagerPc = "sleeping"
    /\ pagerPc' = "awaiting"
    /\ attempt' = Min(attempt + 1, MaxAttempts)
    /\ sleepFor' = 0
    /\ retryHeader' = -1
    /\ UNCHANGED <<history, srcMode, startUtc, endUtc, before, collected,
                   pagesServed, lastPage>>

\* !res.ok: throw new Error(`Discord API error ...`)
PagerApiError ==
    /\ pagerPc = "awaiting"
    /\ pagerPc' = "failed"
    /\ UNCHANGED <<history, srcMode, startUtc, endUtc, before, collected,
                   attempt, sleepFor, pagesServed, lastPage, retryHeader>>

\* the body of the while loop of fetchChannelMessagesInRange for one page
ProcessPage(page) ==
    IF page = <<>>
    THEN /\ pagerPc' = "returned"
         /\ lastPage' = <<>>
         /\ UNCHANGED <<before, collected>>
    ELSE LET sorted == SortByTimestamp(page)
         IN  /\ collected' = collected \o SelectInWindow(sorted, startUtc, endUtc)
             /\ before' = NextCursor(sorted)
             /\ lastPage' = sorted
             /\ pagerPc' = IF PagerStops(sorted, startUtc) THEN "returned" ELSE "request"

\* the pages the source may answer with
SourcePages ==
    IF srcMode = "honest" THEN {HonestPage(history, before)}
    ELSE {NewestFirst(history, ids, PageLimit) :
            ids \in {S \in SUBSET DOMAIN history : Cardinality(S) <= PageLimit}}

\* a source that ignores the cursor can keep the pager going for ever; the
\* model follows it for as many pages as the longest honest run has
AnyPageCap(h) == Len(h) \div PageLimit + 1

\* a 2xx answer carrying an array
PagerPage ==
    /\ pagerPc = "awaiting"
    /\ srcMode = "any" => pagesServed < AnyPageCap(history)
    /\ \E page \in SourcePages : ProcessPage(page)
    /\ pagesServed' = pagesServed + 1
    /\ attempt' = 0
    /\ UNCHANGED <<history, srcMode, startUtc, endUtc, sleepFor, retryHeader>>

\* a 2xx answer whose body is not an array: !Array.isArray(page) -> break
PagerNotArray ==
    /\ pagerPc = "awaiting"
    /\ srcMode = "any"
    /\ pagerPc' = "returned"
    /\ lastPage' = <<>>
    /\ attempt' = 0
    /\ UNCHANGED <<history, srcMode, startUtc, endUtc, before, collected,
                   sleepFor, pagesServed, retryHeader>>

PagerEnded == pagerPc \in {"returned", "failed"}

-----------------------------------------------------------------------------
(***************************************************************************)
(* The run: main of scripts/generate-radio.js ("radio") and of part_000    *)
(* ("legacy"), stage by stage.  The answers of the collaborators (message  *)
(* source, script service, TTS provider, ffmpeg) are inputs.               *)
(***************************************************************************)
InitRun ==
    /\ runProg \in {"radio", "legacy"}
    /\ runMode \in {"single", "per_channel"}
    /\ dateArg \in {"none", "valid", "nan", "rollover"}
    /\ nChannels \in 1..MaxChannels
    /\ runPc = "start"
    /\ chan = 0
    /\ listingFailed = {}
    /\ listingRequests = 0
    /\ materials = {}
    /\ scriptsBuilt = 0
    /\ synthStarted = 0
    /\ segmentCount = 0
    /\ episodes = 0
    /\ outputsSaved = 0

\* a --date value whose fields do not parse gives an Invalid Date; fields out
\* of range roll over to a valid instant (Date.UTC)
WindowIsValid == dateArg # "nan"

\* main up to the channel loop.  generate-radio.js logs
\* startUtc.toISOString(), which raises a RangeError on an Invalid Date
RunResolveWindow ==
    /\ runPc = "start"
    /\ IF runProg = "radio" /\ ~WindowIsValid
       THEN runPc' = "failed" /\ chan' = chan
       ELSE runPc' = "listing" /\ chan' = 1
    /\ UNCHANGED <<runProg, runMode, dateArg, nChannels, listingFailed,
                   listingRequests, materials, scriptsBuilt, synthStarted,
                   segmentCount, episodes, outputsSaved>>

\* the message listing of channel `chan` returns its messages
RunListingOk ==
    /\ runPc = "listing"
    /\ runPc' = "articles"
    /\ listingRequests' = listingRequests + 1
    /\ UNCHANGED <<runProg, runMode, dateArg, nChannels, chan, listingFailed,
                   materials, scriptsBuilt, synthStarted, segmentCount,
                   episodes, outputsSaved>>

\* mutant: generate-radio.js without the try/catch around the listing
RunListingErrorPropagates ==
    /\ runPc = "listing"
    /\ listingRequests' = listingRequests + 1
    /\ listingFailed' = listingFailed \cup {chan}
    /\ runPc' = "failed"
    /\ UNCHANGED <<runProg, runMode, dateArg, nChannels, chan, materials,
                   scriptsBuilt, synthStarted, segmentCount, episodes,
                   outputsSaved>>

\* the message listing of channel `chan` raises (a non-2xx, non-429 answer).
\* generate-radio.js: catch (e) { logWarn(...); messages = []; } and the loop
\* body goes on; part_000: no handler, the error leaves main
RunListingError ==
    /\ runPc = "listing"
    /\ listingRequests' = listingRequests + 1
    /\ listingFailed' = listingFailed \cup {chan}
    /\ runPc' = IF runProg = "radio" THEN "articles" ELSE "failed"
    /\ UNCHANGED <<runProg, runMode, dateArg, nChannels, chan, materials,
                   scriptsBuilt, synthStarted, segmentCount, episodes,
                   outputsSaved>>

\* extraction and the article batch of channel `chan` (neither raises), then
\* perChannelMaterials.set(channelId, ...) and the next channel
RunArticles ==
    /\ runPc = "articles"
    /\ materials' = materials \cup {chan}
    /\ IF chan < nChannels
       THEN runPc' = "listing" /\ chan' = chan + 1
       ELSE runPc' = "script" /\ chan' = 1
    /\ UNCHANGED <<runProg, runMode, dateArg, nChannels, listingFailed,
                   listingRequests, scriptsBuilt, synthStarted, segmentCount,
                   episodes, outputsSaved>>

\* generate-radio.js, per_channel: buildMonologueScript is not defined in the
\* script, the call raises a ReferenceError
RunRadioPerChannel ==
    /\ runPc = "script"
    /\ runProg = "radio"
    /\ runMode = "per_channel"
    /\ runPc' = "failed"
    /\ UNCHANGED <<runProg, runMode, dateArg, nChannels, chan, listingFailed,
                   listingRequests, materials, scriptsBuilt, synthStarted,
                   segmentCount, episodes, outputsSaved>>

\* generate-radio.js, single: buildMonologueScriptAI (falls back to the
\* heuristic script, never raises, never empty) and generatePostTitleAI
RunRadioScript ==
    /\ runPc = "script"
    /\ runProg = "radio"
    /\ runMode = "single"
    /\ scriptsBuilt' = scriptsBuilt + 1
    /\ segmentCount' = 1
    /\ runPc' = "synth"
    /\ UNCHANGED <<runProg, runMode, dateArg, nChannels, chan, listingFailed,
                   listingRequests, materials, synthStarted, episodes,
                   outputsSaved>>

\* part_000: buildConversationText and callCastmakeConversation answer with
\* a script of n dialogue segments (script = resp?.script || '')
RunLegacyScript ==
    /\ runPc = "script"
    /\ runProg = "legacy"
    /\ \E n \in 0..MaxTurns : segmentCount' = n
    /\ scriptsBuilt' = scriptsBuilt + 1
    /\ runPc' = "synth"
    /\ UNCHANGED <<runProg, runMode, dateArg, nChannels, chan, listingFailed,
                   listingRequests, materials, synthStarted, episodes,
                   outputsSaved>>

\* part_000: callCastmakeConversation raises on a non-2xx, non-429 answer
RunLegacyScriptError ==
    /\ runPc = "script"
    /\ runProg = "legacy"
    /\ runPc' = "failed"
    /\ UNCHANGED <<runProg, runMode, dateArg, nChannels, chan, listingFailed,
                   listingRequests, materials, scriptsBuilt, synthStarted,
                   segmentCount, episodes, outputsSaved>>

\* the synthesis finds nothing to say (part_000: no segment parsed) and
\* returns without a TTS request
RunSynthNothing ==
    /\ runPc = "synth"
    /\ segmentCount = 0
    /\ runPc' = IF runProg = "radio" THEN "save" ELSE "concat"
    /\ UNCHANGED <<runProg, runMode, dateArg, nChannels, chan, listingFailed,
                   listingRequests, materials, scriptsBuilt, synthStarted,
                   segmentCount, episodes, outputsSaved>>

\* every TTS request of the synthesis succeeds.  generate-radio.js
\* (synthesizeLongformMonologue) writes the episode file itself
RunSynthOk ==
    /\ runPc = "synth"
    /\ segmentCount > 0
    /\ synthStarted' = synthStarted + 1
    /\ IF runProg = "radio"
       THEN runPc' = "save" /\ episodes' = episodes + 1
       ELSE runPc' = "concat" /\ episodes' = episodes
    /\ UNCHANGED <<runProg, runMode, dateArg, nChannels, chan, listingFailed,
                   listingRequests, materials, scriptsBuilt, segmentCount,
                   outputsSaved>>

\* a TTS request raises: the error leaves the synthesizer and main
RunSynthError ==
    /\ runPc = "synth"
    /\ segmentCount > 0
    /\ synthStarted' = synthStarted + 1
    /\ runPc' = "failed"
    /\ UNCHANGED <<runProg, runMode, dateArg, nChannels, chan, listingFailed,
                   listingRequests, materials, scriptsBuilt, segmentCount,
                   episodes, outputsSaved>>

\* part_000: concatAudioFiles; no file for an empty list, else ffmpeg exits 0
RunConcat ==
    /\ runPc = "concat"
    /\ episodes' = IF segmentCount = 0 THEN episodes ELSE episodes + 1
    /\ runPc' = "save"
    /\ UNCHANGED <<runProg, runMode, dateArg, nChannels, chan, listingFailed,
                   listingRequests, materials, scriptsBuilt, synthStarted,
                   segmentCount, outputsSaved>>

\* part_000: ffmpeg fails to start or exits non-zero
RunConcatError ==
    /\ runPc = "concat"
    /\ segmentCount > 0
    /\ runPc' = "failed"
    /\ UNCHANGED <<runProg, runMode, dateArg, nChannels, chan, listingFailed,
                   listingRequests, materials, scriptsBuilt, synthStarted,
                   segmentCount, episodes, outputsSaved>>

\* saveRunOutput, then the next channel (part_000, per_channel) or the end of
\* main (posting failures of generate-radio.js are caught and logged)
RunSave ==
    /\ runPc = "save"
    /\ outputsSaved' = outputsSaved + 1
    /\ IF runProg = "legacy" /\ runMode = "per_channel" /\ chan < nChannels
       THEN runPc' = "script" /\ chan' = chan + 1
       ELSE runPc' = "done" /\ chan' = chan
    /\ UNCHANGED <<runProg, runMode, dateArg, nChannels, listingFailed,
                   listingRequests, materials, scriptsBuilt, synthStarted,
                   segmentCount, episodes>>

-----------------------------------------------------------------------------
(***************************************************************************)
(* The article batch of one channel:                                       *)
(*   const limit = pLimit(maxConcurrency);                                 *)
(*   articles = (await Promise.all(limitedUrls.map(u =>                    *)
(*       limit(() => fetchArticleContent(u))))).filter(a => a.title||a.text)*)
(* fetchArticleContent is the one of generate-radio.js (oEmbed first for   *)
(* X/Twitter status URLs).  An Article is [url, title, text]: title is     *)
(* "null" or "t", text is -1 for null and the length of the string else.   *)
(***************************************************************************)
NoArticle == [url |-> 0, title |-> "null", text |-> -1]

EmptyArticle(i) == [url |-> i, title |-> "null", text |-> -1]

\* lengths the text of a document or embed may have
RawLens == {0, 1, maxArticleChars + 1}

\* text.slice(0, maxArticleChars)
Truncate(len) == Min(len, maxArticleChars)

\* the first await of fetchArticleContent: the oEmbed request for a status
\* URL, the page fetch for any other
StartPc(u) == IF u.isX THEN "embed" ELSE "page"

\* mutant: one call too many is let through
SlotFreeOffByOne(active) == active <= maxConcurrency

\* p-limit: a queued call starts while activeCount < concurrency
SlotFree(active) == active < maxConcurrency

\* mutant: the call queued last is started first
RECURSIVE AdmitNewestFirst(_)
AdmitNewestFirst(st) ==
    IF SlotFree(st.active) /\ st.queue # <<>>
    THEN LET last == st.queue[Len(st.queue)]
         IN  AdmitNewestFirst(
                [active |-> st.active + 1,
                 queue  |-> SubSeq(st.queue, 1, Len(st.queue) - 1),
                 pc     |-> [st.pc EXCEPT ![last] = StartPc(urls[last])]])
    ELSE st

\* p-limit: start queued calls, in queue order, while a slot is free
RECURSIVE Admit(_)
Admit(st) ==
    IF SlotFree(st.active) /\ st.queue # <<>>
    THEN Admit([active |-> st.active + 1,
                queue  |-> Tail(st.queue),
                pc     |-> [st.pc EXCEPT ![Head(st.queue)] = StartPc(urls[Head(st.queue)])]])
    ELSE st

UrlLists == UNION {[1..n -> [isX : BOOLEAN]] : n \in 0..MaxUrls}

\* the state once limitedUrls.map(...) has queued every URL and the limiter
\* has started the first calls
InitBatch ==
    /\ urls \in UrlLists
    /\ LET n  == Len(urls)
           st == Admit([active |-> 0,
                        queue  |-> [i \in 1..n |-> i],
                        pc     |-> [i \in 1..n |-> "queued"]])
       IN  /\ taskPc = st.pc
           /\ queue = st.queue
           /\ activeCount = st.active
           /\ result = [i \in 1..n |-> NoArticle]
    /\ embedFailed = {}
    /\ pageFailed = {}
    /\ batchPc = "running"
    /\ articles = <<>>
    /\ firstDone = 0

\* fetchArticleContent(urls[i]) returns `a`: the limiter's slot is released
\* and the next queued call starts
Finish(i, a) ==
    LET st == Admit([active |-> activeCount - 1,
                     queue  |-> queue,
                     pc     |-> [taskPc EXCEPT ![i] = "done"]])
    IN  /\ taskPc' = st.pc
        /\ queue' = st.queue
        /\ activeCount' = st.active
        /\ result' = [result EXCEPT ![i] = a]
        /\ firstDone' = IF firstDone = 0 THEN i ELSE firstDone

\* mutant: the page is fetched after the embed has answered
EmbedOkThenPage(i) ==
    /\ taskPc[i] = "embed"
    /\ taskPc' = [taskPc EXCEPT ![i] = "page"]
    /\ UNCHANGED <<urls, result, embedFailed, pageFailed, queue, activeCount,
                   batchPc, articles, firstDone>>

\* fetchXoEmbed answers: { title: xo.title || 'Xの投稿', text: xo.text || null }
EmbedOk(i) ==
    /\ taskPc[i] = "embed"
    /\ \E len \in RawLens :
          Finish(i, [url |-> i, title |-> "t", text |-> IF len = 0 THEN -1 ELSE len])
    /\ UNCHANGED <<urls, embedFailed, pageFailed, batchPc, articles>>

\* fetchXoEmbed catches its error and returns null: the page is fetched
EmbedFail(i) ==
    /\ taskPc[i] = "embed"
    /\ taskPc' = [taskPc EXCEPT ![i] = "page"]
    /\ embedFailed' = embedFailed \cup {i}
    /\ UNCHANGED <<urls, result, pageFailed, queue, activeCount, batchPc, articles, firstDone>>

\* mutant: fetchArticleContent without its catch, the rejection reaches
\* Promise.all
ArticleFetchRaises(i) ==
    /\ taskPc[i] \in {"page", "body"}
    /\ taskPc' = [taskPc EXCEPT ![i] = "raised"]
    /\ pageFailed' = pageFailed \cup {i}
    /\ batchPc' = "failed"
    /\ UNCHANGED <<urls, result, embedFailed, queue, activeCount, articles, firstDone>>

\* fetch(url) rejects (network error, abort by the 15 s timer), res.text()
\* rejects, or JSDOM / Readability raise:
\* catch (err) { logWarn(...); return { url, title: null, text: null }; }
ArticleFetchFails(i) ==
    /\ taskPc[i] \in {"page", "body"}
    /\ Finish(i, EmptyArticle(i))
    /\ pageFailed' = pageFailed \cup {i}
    /\ UNCHANGED <<urls, embedFailed, batchPc, articles>>

\* the content type is not text/html
PageNotHtml(i) ==
    /\ taskPc[i] = "page"
    /\ Finish(i, EmptyArticle(i))
    /\ UNCHANGED <<urls, embedFailed, pageFailed, batchPc, articles>>

\* the content type is text/html: await res.text()
PageHtml(i) ==
    /\ taskPc[i] = "page"
    /\ taskPc' = [taskPc EXCEPT ![i] = "body"]
    /\ UNCHANGED <<urls, result, embedFailed, pageFailed, queue, activeCount,
                   batchPc, articles, firstDone>>

\* Readability finds an article: whitespace collapsed, trimmed, truncated
BodyReadable(i) ==
    /\ taskPc[i] = "body"
    /\ \E title \in {"null", "t"}, len \in RawLens :
          Finish(i, [url |-> i, title |-> title,
                     text |-> IF len = 0 THEN -1 ELSE Truncate(len)])
    /\ UNCHANGED <<urls, embedFailed, pageFailed, batchPc, articles>>

\* Readability finds none: the body text, trimmed and truncated; null when
\* the body has no text at all (len = -1), '' when it is blank (len = 0)
BodyFallback(i) ==
    /\ taskPc[i] = "body"
    /\ \E title \in {"null", "t"}, len \in RawLens \cup {-1} :
          Finish(i, [url |-> i, title |-> title,
                     text |-> IF len = -1 THEN -1 ELSE Truncate(len)])
    /\ UNCHANGED <<urls, embedFailed, pageFailed, batchPc, articles>>

\* mutant: nothing is discarded
KeptAll(a) == TRUE

\* .filter(a => a && (a.title || a.text))
Kept(a) == a.title # "null" \/ a.text > 0

RECURSIVE KeepArticles(_)
KeepArticles(as) ==
    IF as = <<>> THEN <<>>
    ELSE (IF Kept(as[1]) THEN <<as[1]>> ELSE <<>>) \o KeepArticles(Tail(as))

\* mutant: the result that came first is listed first
BatchCollectFirstDoneFirst ==
    /\ batchPc = "running"
    /\ \A i \in 1..Len(urls) : taskPc[i] = "done"
    /\ articles' = KeepArticles(
            IF firstDone = 0 THEN result
            ELSE <<result[firstDone]>>
                 \o SubSeq(result, 1, firstDone - 1)
                 \o SubSeq(result, firstDone + 1, Len(result)))
    /\ batchPc' = "collected"
    /\ UNCHANGED <<urls, taskPc, result, embedFailed, pageFailed, queue,
                   activeCount, firstDone>>

\* Promise.all resolves when every call has returned: its array has the
\* result of call i at position i
BatchCollect ==
    /\ batchPc = "running"
    /\ \A i \in 1..Len(urls) : taskPc[i] = "done"
    /\ articles' = KeepArticles(result)
    /\ batchPc' = "collected"
    /\ UNCHANGED <<urls, taskPc, result, embedFailed, pageFailed, queue, activeCount, firstDone>>

InFlight == {i \in 1..Len(urls) : taskPc[i] \in {"embed", "page", "body"}}

-----------------------------------------------------------------------------
(***************************************************************************)
(* The TTS response normalizer: the part of minimaxT2ARequest after the    *)
(* status checks, in generate-radio.js ("radio") and in part_000           *)
(* ("legacy").  A string is a sequence of one-character strings, a buffer  *)
(* a sequence of bytes.                                                    *)
(***************************************************************************)
HexDigits == <<"0", "1", "2", "3", "4", "5", "6", "7", "8", "9",
               "a", "b", "c", "d", "e", "f">>

HexDigitsUpper == <<"0", "1", "2", "3", "4", "5", "6", "7", "8", "9",
                    "A", "B", "C", "D", "E", "F">>

\* the value of a hex digit, -1 for any other character
HexVal(c) ==
    IF \E i \in 1..16 : HexDigits[i] = c
    THEN (CHOOSE i \in 1..16 : HexDigits[i] = c) - 1
    ELSE IF \E i \in 1..16 : HexDigitsUpper[i] = c
         THEN (CHOOSE i \in 1..16 : HexDigitsUpper[i] = c) - 1
         ELSE -1

\* Buffer.from(s, 'hex'): one byte per pair of hex digits, up to the first
\* pair that is not one; an odd last character is dropped
RECURSIVE HexDecode(_)
HexDecode(s) ==
    IF Len(s) < 2 \/ HexVal(s[1]) < 0 \/ HexVal(s[2]) < 0 THEN <<>>
    ELSE <<16 * HexVal(s[1]) + HexVal(s[2])>> \o HexDecode(SubSeq(s, 3, Len(s)))

Base64Alphabet ==
    <<"A", "B", "C", "D", "E", "F", "G", "H", "I", "J", "K", "L", "M",
      "N", "O", "P", "Q", "R", "S", "T", "U", "V", "W", "X", "Y", "Z",
      "a", "b", "c", "d", "e", "f", "g", "h", "i", "j", "k", "l", "m",
      "n", "o", "p", "q", "r", "s", "t", "u", "v", "w", "x", "y", "z",
      "0", "1", "2", "3", "4", "5", "6", "7", "8", "9", "+", "/">>

Base64Val(c) ==
    IF \E i \in DOMAIN Base64Alphabet : Base64Alphabet[i] = c
    THEN (CHOOSE i \in DOMAIN Base64Alphabet : Base64Alphabet[i] = c) - 1
    ELSE -1

\* the sextets of a base64 string: the decoder stops at the padding and
\* passes over characters outside the alphabet
RECURSIVE Sextets(_)
Sextets(s) ==
    IF s = <<>> \/ s[1] = "=" THEN <<>>
    ELSE (IF Base64Val(s[1]) < 0 THEN <<>> ELSE <<Base64Val(s[1])>>)
         \o Sextets(Tail(s))

\* four sextets give three bytes, three give two, two give one
RECURSIVE SextetsToBytes(_)
SextetsToBytes(q) ==
    IF Len(q) < 2 THEN <<>>
    ELSE LET b1 == q[1] * 4 + (q[2] \div 16)
         IN  IF Len(q) = 2 THEN <<b1>>
             ELSE LET b2 == (q[2] % 16) * 16 + (q[3] \div 4)
                  IN  IF Len(q) = 3 THEN <<b1, b2>>
                      ELSE <<b1, b2, (q[3] % 4) * 64 + q[4]>>
                           \o SextetsToBytes(SubSeq(q, 5, Len(q)))

\* Buffer.from(s, 'base64')
Base64Decode(s) == SextetsToBytes(Sextets(s))

\* the bytes of "hello"
HelloBytes == <<104, 101, 108, 108, 111>>

\* "68656c6c6f"
HelloHex == <<"6", "8", "6", "5", "6", "c", "6", "c", "6", "f">>

\* "aGVsbG8="
HelloBase64 == <<"a", "G", "V", "s", "b", "G", "8", "=">>

\* a field of a JSON body: not there, or a string
Absent == [has |-> FALSE, str |-> <<>>]

Str(s) == [has |-> TRUE, str |-> s]

\* typeof v === 'string'
IsString(v) == v.has

\* JavaScript truthiness of a field that is absent or a string
Truthy(v) == v.has /\ v.str # <<>>

\* data.data: not there, an object with the fields audio and audio_base64,
\* or an array whose first element has the field audio_base64
NoData == [kind |-> "none", audio |-> Absent, audio_base64 |-> Absent]

DataObj(audio, audio_base64) ==
    [kind |-> "obj", audio |-> audio, audio_base64 |-> audio_base64]

DataArr(audio_base64) ==
    [kind |-> "arr", audio |-> Absent, audio_base64 |-> audio_base64]

\* the body as res.json().catch(() => null) gives it: null when it does not
\* parse; baseResp says whether base_resp is there, code is its status_code
NullJson ==
    [parsed |-> FALSE, audio |-> Absent, audio_base64 |-> Absent,
     audio_url |-> Absent, data |-> NoData, baseResp |-> FALSE, code |-> 0]

Envelope(audio, audio_base64, audio_url, data) ==
    [parsed |-> TRUE, audio |-> audio, audio_base64 |-> audio_base64,
     audio_url |-> audio_url, data |-> data, baseResp |-> FALSE, code |-> 0]

WithBaseResp(env, code) == [env EXCEPT !.baseResp = TRUE, !.code = code]

\* what the normalizer does with a 2xx answer: return a buffer, fetch the
\* audio URL, or throw
Bytes(b) == [kind |-> "bytes", bytes |-> b]

FetchUrl == [kind |-> "fetch", bytes |-> <<>>]

Throw == [kind |-> "throw", bytes |-> <<>>]

\* mutant: the pointer URL is looked for before the hex audio
NormalizeRadioUrlFirst(resp) ==
    IF resp.ctype = "audio" THEN Bytes(resp.raw)
    ELSE LET data == resp.json IN
         IF ~data.parsed THEN Throw
         ELSE IF data.baseResp /\ data.code # 0 THEN Throw
         ELSE IF Truthy(data.audio_url) THEN FetchUrl
         ELSE IF data.data.kind = "obj" /\ Truthy(data.data.audio)
              THEN Bytes(HexDecode(data.data.audio.str))
         ELSE IF IsString(data.audio_base64)
              THEN Bytes(Base64Decode(data.audio_base64.str))
         ELSE IF IsString(data.data.audio_base64)
              THEN Bytes(Base64Decode(data.data.audio_base64.str))
         ELSE Throw

\* generate-radio.js, minimaxT2ARequest after `if (!res.ok)`
NormalizeRadio(resp) ==
    IF resp.ctype = "audio" THEN Bytes(resp.raw)
    ELSE LET data == resp.json IN
         IF ~data.parsed THEN Throw
         ELSE IF data.baseResp /\ data.code # 0 THEN Throw
         ELSE IF data.data.kind = "obj" /\ Truthy(data.data.audio)
              THEN Bytes(HexDecode(data.data.audio.str))
         ELSE IF Truthy(data.audio_url) THEN FetchUrl
         ELSE IF IsString(data.audio_base64)
              THEN Bytes(Base64Decode(data.audio_base64.str))
         ELSE IF IsString(data.data.audio_base64)
              THEN Bytes(Base64Decode(data.data.audio_base64.str))
         ELSE Throw

\* part_000, minimaxT2ARequest after `if (!res.ok)`
NormalizeLegacy(resp) ==
    IF resp.ctype = "audio" THEN Bytes(resp.raw)
    ELSE LET data == resp.json IN
         IF ~data.parsed THEN Throw
         ELSE IF Truthy(data.audio) THEN Bytes(Base64Decode(data.audio.str))
         ELSE IF data.data.kind = "arr" /\ Truthy(data.data.audio_base64)
              THEN Bytes(Base64Decode(data.data.audio_base64.str))
         ELSE Throw

Normalize(prog, resp) ==
    IF prog = "radio" THEN NormalizeRadio(resp) ELSE NormalizeLegacy(resp)

\* the answers of the provider: status, retry-after header (-1: none),
\* content type, raw body, parsed body
Response(status, retryAfter, ctype, raw, json) ==
    [status |-> status, retryAfter |-> retryAfter, ctype |-> ctype,
     raw |-> raw, json |-> json]

RawHello == Response(200, -1, "audio", HelloBytes, NullJson)

HexEnvelope ==
    Response(200, -1, "json", <<>>,
             WithBaseResp(Envelope(Absent, Absent, Absent,
                                   DataObj(Str(HelloHex), Absent)), 0))

\* {data:{audio:"68656c6c6f"}}
BareHexEnvelope ==
    Response(200, -1, "json", <<>>,
             Envelope(Absent, Absent, Absent, DataObj(Str(HelloHex), Absent)))

\* {audio:"aGVsbG8="}
AudioEnvelope ==
    Response(200, -1, "json", <<>>,
             Envelope(Str(HelloBase64), Absent, Absent, NoData))

\* {audio_base64:"aGVsbG8="}
AudioBase64Envelope ==
    Response(200, -1, "json", <<>>,
             Envelope(Absent, Str(HelloBase64), Absent, NoData))

\* {data:[{audio_base64:"aGVsbG8="}]}
ArrayEnvelope ==
    Response(200, -1, "json", <<>>,
             Envelope(Absent, Absent, Absent, DataArr(Str(HelloBase64))))

\* {audio_url:"https://..."}
UrlEnvelope ==
    Response(200, -1, "json", <<>>,
             Envelope(Absent, Absent, Str(<<"u">>), NoData))

\* {}
EmptyEnvelope ==
    Response(200, -1, "json", <<>>, Envelope(Absent, Absent, Absent, NoData))

\* {base_resp:{status_code:1004}, data:{audio:"68656c6c6f"}}
RefusedEnvelope ==
    Response(200, -1, "json", <<>>,
             WithBaseResp(Envelope(Absent, Absent, Absent,
                                   DataObj(Str(HelloHex), Absent)), 1004))

\* "6f6b", the hex of "ok", and "b2s=", its base64
OkHex == <<"6", "f", "6", "b">>

OkBase64 == <<"b", "2", "s", "=">>

\* {data:{audio:"6f6b"}, audio_url:"https://...", audio_base64:"aGVsbG8="}
AllFieldsEnvelope ==
    Response(200, -1, "json", <<>>,
             Envelope(Absent, Str(HelloBase64), Str(<<"u">>),
                      DataObj(Str(OkHex), Absent)))

\* {audio_url:"https://...", audio_base64:"b2s="}
UrlBase64Envelope ==
    Response(200, -1, "json", <<>>,
             Envelope(Absent, Str(OkBase64), Str(<<"u">>), NoData))

\* a 2xx body that is not JSON
NotJson == Response(200, -1, "json", <<>>, NullJson)

\* a raw audio body with other bytes ("ok")
RawOther == Response(200, -1, "audio", <<111, 107>>, NullJson)

SuccessResponses ==
    {RawHello, RawOther, HexEnvelope, BareHexEnvelope, AudioEnvelope, AudioBase64Envelope,
     ArrayEnvelope, UrlEnvelope, EmptyEnvelope, RefusedEnvelope, NotJson,
     AllFieldsEnvelope, UrlBase64Envelope}

\* the retry-after headers of a 429: none, "0", "2"
TtsRetryHeaders == {-1, 0, 2}

RateLimitResponses ==
    {Response(429, h, "json", <<>>, NullJson) : h \in TtsRetryHeaders}

ErrorResponses == {Response(500, -1, "json", <<>>, NullJson)}

Responses == SuccessResponses \cup RateLimitResponses \cup ErrorResponses

\* Number(res.headers.get('retry-after') || '1')
TtsRetryAfter(header) == IF header = -1 THEN 1 ELSE header

-----------------------------------------------------------------------------
(***************************************************************************)
(* One synthesis and what main does with its result.                       *)
(* "legacy": synthesizeConversationWithMiniMax (one request per chunk of   *)
(* each dialogue segment, one file per request) and concatAudioFiles.      *)
(* "radio": synthesizeLongformMonologue (one request for the whole script, *)
(* the buffer is the episode).  A text is known by its length, a chunk by  *)
(* its segment, offset and length.                                         *)
(***************************************************************************)
NoResponse == Response(0, -1, "none", <<>>, NullJson)

NoRequest == [seg |-> 0, off |-> 0, len |-> 0, voice |-> "none", idx |-> 0]

\* mutant: the chunk boundary loses a character (i += chunkSize + 1)
RECURSIVE ChunksFromSkipping(_, _, _)
ChunksFromSkipping(off, len, chunkSize) ==
    IF off >= len THEN <<>>
    ELSE <<[off |-> off, len |-> Min(chunkSize, len - off)]>>
         \o ChunksFromSkipping(off + chunkSize + 1, len, chunkSize)

\* splitTextIntoChunks(text, chunkSize), for the text from offset `off` on
RECURSIVE ChunksFrom(_, _, _)
ChunksFrom(off, len, chunkSize) ==
    IF off >= len THEN <<>>
    ELSE <<[off |-> off, len |-> Min(chunkSize, len - off)]>>
         \o ChunksFrom(off + chunkSize, len, chunkSize)

splitTextIntoChunks(len, chunkSize) == ChunksFrom(0, len, chunkSize)

\* the requests of segment k: chunks of ChunkSize characters in part_000,
\* the whole script in generate-radio.js
SegmentChunks(prog, seg) ==
    IF prog = "legacy" THEN splitTextIntoChunks(seg.len, ChunkSize)
    ELSE <<[off |-> 0, len |-> seg.len]>>

\* seg.speaker === 'A' ? minimaxVoiceA : minimaxVoiceB; minimaxVoiceSingle
VoiceOf(prog, seg) ==
    IF prog = "radio" THEN "single"
    ELSE IF seg.speaker = "A" THEN "voiceA" ELSE "voiceB"

\* parseDialogueScript keeps segments with a non-empty text only: a text
\* of one character, of one full chunk, or of the greatest length
DialogueScripts ==
    UNION {[1..n -> [speaker : {"A", "B"}, len : {1, ChunkSize, MaxTextLen}]] :
              n \in 0..MaxTurns}

\* the monologue script: blank (no segment) or one text
MonologueScripts ==
    {<<>>} \cup {<<[speaker |-> "A", len |-> n]>> : n \in 1..MaxTextLen}

InitTts ==
    /\ ttsProg \in {"radio", "legacy"}
    /\ segments \in (IF ttsProg = "radio" THEN MonologueScripts ELSE DialogueScripts)
    /\ ttsPc = "start"
    /\ segIdx = 1
    /\ chunkIdx = 1
    /\ index = 0
    /\ ttsRequest = NoRequest
    /\ ttsResp = NoResponse
    /\ ttsAttempt = 0
    /\ ttsSleep = 0
    /\ buf = <<>>
    /\ files = <<>>
    /\ episode = <<>>
    /\ disk = <<>>
    /\ listFile = <<>>
    /\ ffmpegStarted = FALSE

\* if (segments.length === 0) return [];  if (!script.trim()) return null;
TtsStart ==
    /\ ttsPc = "start"
    /\ ttsPc' = IF segments # <<>> THEN "request"
                ELSE IF ttsProg = "legacy" THEN "concat" ELSE "done"
    /\ UNCHANGED <<ttsProg, segments, segIdx, chunkIdx, index, ttsRequest,
                   ttsResp, ttsAttempt, ttsSleep, buf, files, episode, disk,
                   listFile, ffmpegStarted>>

\* minimaxT2ARequest(chunk, voice, index): the POST is sent
TtsIssue ==
    /\ ttsPc = "request"
    /\ LET seg == segments[segIdx]
           ch  == SegmentChunks(ttsProg, seg)[chunkIdx]
       IN  ttsRequest' = [seg |-> segIdx, off |-> ch.off, len |-> ch.len,
                          voice |-> VoiceOf(ttsProg, seg), idx |-> index]
    /\ ttsAttempt' = 1
    /\ ttsResp' = NoResponse
    /\ ttsPc' = "awaiting"
    /\ UNCHANGED <<ttsProg, segments, segIdx, chunkIdx, index, ttsSleep, buf,
                   files, episode, disk,
                   listFile, ffmpegStarted>>

\* res.status === 429: delay(retryAfter * 1000)
TtsRateLimited ==
    /\ ttsPc = "awaiting"
    /\ \E r \in RateLimitResponses :
          /\ ttsResp' = r
          /\ ttsSleep' = TtsRetryAfter(r.retryAfter)
    /\ ttsPc' = "sleeping"
    /\ UNCHANGED <<ttsProg, segments, segIdx, chunkIdx, index, ttsRequest,
                   ttsAttempt, buf, files, episode, disk,
                   listFile, ffmpegStarted>>

\* mutant: the retry gives up after MaxAttempts attempts
TtsRetryCapped ==
    /\ ttsPc = "sleeping"
    /\ ttsPc' = IF ttsAttempt >= MaxAttempts THEN "failed" ELSE "awaiting"
    /\ ttsAttempt' = Min(ttsAttempt + 1, MaxAttempts)
    /\ ttsSleep' = 0
    /\ UNCHANGED <<ttsProg, segments, segIdx, chunkIdx, index, ttsRequest,
                   ttsResp, buf, files, episode, disk,
                   listFile, ffmpegStarted>>

\* return minimaxT2ARequest(text, voiceId, idx): the same POST again
TtsRetry ==
    /\ ttsPc = "sleeping"
    /\ ttsPc' = "awaiting"
    /\ ttsAttempt' = Min(ttsAttempt + 1, MaxAttempts)
    /\ ttsSleep' = 0
    /\ UNCHANGED <<ttsProg, segments, segIdx, chunkIdx, index, ttsRequest,
                   ttsResp, buf, files, episode, disk,
                   listFile, ffmpegStarted>>

\* mutant: a failed request is logged and the loop goes on with the next
\* ordinal
TtsSkipSegment ==
    /\ ttsPc = "awaiting"
    /\ \E r \in ErrorResponses \cup SuccessResponses :
          /\ r.status = 200 => Normalize(ttsProg, r).kind = "throw"
          /\ ttsResp' = r
    /\ index' = index + 1
    /\ ttsPc' = IF ttsProg = "legacy" THEN "pacing" ELSE "done"
    /\ UNCHANGED <<ttsProg, segments, segIdx, chunkIdx, ttsRequest, ttsAttempt,
                   ttsSleep, buf, files, episode, disk,
                   listFile, ffmpegStarted>>

\* !res.ok, a base_resp error or no recognized shape: throw new Error(...)
TtsHardFailure ==
    /\ ttsPc = "awaiting"
    /\ \E r \in ErrorResponses \cup SuccessResponses :
          /\ r.status = 200 => Normalize(ttsProg, r).kind = "throw"
          /\ ttsResp' = r
    /\ ttsPc' = "failed"
    /\ UNCHANGED <<ttsProg, segments, segIdx, chunkIdx, index, ttsRequest,
                   ttsAttempt, ttsSleep, buf, files, episode, disk,
                   listFile, ffmpegStarted>>

\* a 2xx answer in a shape the normalizer turns into a buffer
TtsAudio ==
    /\ ttsPc = "awaiting"
    /\ \E r \in SuccessResponses :
          /\ Normalize(ttsProg, r).kind = "bytes"
          /\ ttsResp' = r
          /\ buf' = Normalize(ttsProg, r).bytes
    /\ ttsPc' = "received"
    /\ UNCHANGED <<ttsProg, segments, segIdx, chunkIdx, index, ttsRequest,
                   ttsAttempt, ttsSleep, files, episode, disk,
                   listFile, ffmpegStarted>>

\* a 2xx answer with audio_url: fetch(audioUrl)
TtsAudioUrl ==
    /\ ttsPc = "awaiting"
    /\ \E r \in SuccessResponses :
          /\ Normalize(ttsProg, r).kind = "fetch"
          /\ ttsResp' = r
    /\ ttsPc' = "fetchingUrl"
    /\ UNCHANGED <<ttsProg, segments, segIdx, chunkIdx, index, ttsRequest,
                   ttsAttempt, ttsSleep, buf, files, episode, disk,
                   listFile, ffmpegStarted>>

\* Buffer.from(await ares.arrayBuffer())
TtsUrlFetched ==
    /\ ttsPc = "fetchingUrl"
    /\ buf' = HelloBytes
    /\ ttsPc' = "received"
    /\ UNCHANGED <<ttsProg, segments, segIdx, chunkIdx, index, ttsRequest,
                   ttsResp, ttsAttempt, ttsSleep, files, episode, disk,
                   listFile, ffmpegStarted>>

\* if (!ares.ok) throw new Error(...)
TtsUrlFailed ==
    /\ ttsPc = "fetchingUrl"
    /\ ttsPc' = "failed"
    /\ UNCHANGED <<ttsProg, segments, segIdx, chunkIdx, index, ttsRequest,
                   ttsResp, ttsAttempt, ttsSleep, buf, files, episode, disk,
                   listFile, ffmpegStarted>>

\* `tts-${channelId}-${index}${chunks.length > 1 ? `-${ci}` : ''}`: a path is
\* the ordinal and the chunk number, -1 when the segment has one chunk
SegmentPath(ordinal, ci, nChunks) ==
    [ordinal |-> ordinal, ci |-> IF nChunks > 1 THEN ci ELSE -1]

\* fs.writeFile(path, bytes): the file is created or replaced
WriteFile(fs, path, bytes) ==
    [p \in DOMAIN fs \cup {path} |-> IF p = path THEN bytes ELSE fs[p]]

\* mutant: the ordinal advances once per segment, not once per request
TtsWriteOrdinalPerSegment ==
    /\ ttsPc = "received"
    /\ IF ttsProg = "legacy"
       THEN LET nChunks == Len(SegmentChunks(ttsProg, segments[segIdx]))
                fpath == SegmentPath(index, chunkIdx - 1, nChunks)
            IN  /\ disk' = WriteFile(disk, fpath, buf)
                /\ files' = Append(files, fpath)
                /\ index' = IF chunkIdx = nChunks THEN index + 1 ELSE index
                /\ ttsPc' = "pacing"
                /\ episode' = episode
       ELSE /\ episode' = <<buf>>
            /\ ttsPc' = "done"
            /\ UNCHANGED <<files, index, disk>>
    /\ UNCHANGED <<ttsProg, segments, segIdx, chunkIdx, ttsRequest, ttsResp,
                   ttsAttempt, ttsSleep, buf, listFile, ffmpegStarted>>

\* part_000: fs.writeFile(fpath, buf); files.push(fpath); index += 1.
\* generate-radio.js: fs.writeFile(outFile, buf); return outFile
TtsWrite ==
    /\ ttsPc = "received"
    /\ IF ttsProg = "legacy"
       THEN LET fpath == SegmentPath(index, chunkIdx - 1,
                             Len(SegmentChunks(ttsProg, segments[segIdx])))
            IN  /\ disk' = WriteFile(disk, fpath, buf)
                /\ files' = Append(files, fpath)
                /\ index' = index + 1
                /\ ttsPc' = "pacing"
                /\ episode' = episode
       ELSE /\ episode' = <<buf>>
            /\ ttsPc' = "done"
            /\ UNCHANGED <<files, index, disk>>
    /\ UNCHANGED <<ttsProg, segments, segIdx, chunkIdx, ttsRequest, ttsResp,
                   ttsAttempt, ttsSleep, buf, listFile, ffmpegStarted>>

\* await delay(100), then the next chunk, the next segment or the return
TtsPace ==
    /\ ttsPc = "pacing"
    /\ IF chunkIdx < Len(SegmentChunks(ttsProg, segments[segIdx]))
       THEN chunkIdx' = chunkIdx + 1 /\ segIdx' = segIdx /\ ttsPc' = "request"
       ELSE IF segIdx < Len(segments)
            THEN chunkIdx' = 1 /\ segIdx' = segIdx + 1 /\ ttsPc' = "request"
            ELSE chunkIdx' = chunkIdx /\ segIdx' = segIdx /\ ttsPc' = "concat"
    /\ UNCHANGED <<ttsProg, segments, index, ttsRequest, ttsResp, ttsAttempt,
                   ttsSleep, buf, files, episode, disk,
                   listFile, ffmpegStarted>>

\* mutant: the list file names the files newest first
ListContentReversed(fs) == [i \in 1..Len(fs) |-> fs[Len(fs) + 1 - i]]

\* files.map(f => `file '...'`).join('\n'): one entry per file, in the order
\* of `files`
ListContent(fs) == [i \in 1..Len(fs) |-> fs[i]]

\* mutant: no test for the empty list, the list file is written and ffmpeg
\* started whatever `files` holds
TtsConcatAlways ==
    /\ ttsPc = "concat"
    /\ listFile' = ListContent(files)
    /\ ffmpegStarted' = TRUE
    /\ ttsPc' = "ffmpeg"
    /\ UNCHANGED <<ttsProg, segments, segIdx, chunkIdx, index, ttsRequest,
                   ttsResp, ttsAttempt, ttsSleep, buf, files, episode, disk>>

\* concatAudioFiles up to the await: `return null` for no file, else the
\* list file is written and ffmpeg spawned on it
TtsConcat ==
    /\ ttsPc = "concat"
    /\ IF files = <<>>
       THEN ttsPc' = "done" /\ UNCHANGED <<listFile, ffmpegStarted>>
       ELSE /\ listFile' = ListContent(files)
            /\ ffmpegStarted' = TRUE
            /\ ttsPc' = "ffmpeg"
    /\ UNCHANGED <<ttsProg, segments, segIdx, chunkIdx, index, ttsRequest,
                   ttsResp, ttsAttempt, ttsSleep, buf, files, episode, disk>>

\* ffmpeg -f concat -safe 0 -i listFile -c copy outFile exits 0: the streams
\* of the listed files, read from the disk in list order and copied as they
\* are
TtsFfmpegExit ==
    /\ ttsPc = "ffmpeg"
    /\ episode' = [i \in 1..Len(listFile) |-> disk[listFile[i]]]
    /\ ttsPc' = "done"
    /\ UNCHANGED <<ttsProg, segments, segIdx, chunkIdx, index, ttsRequest,
                   ttsResp, ttsAttempt, ttsSleep, buf, files, disk, listFile,
                   ffmpegStarted>>

\* ffmpeg does not start or exits non-zero
TtsConcatError ==
    /\ ttsPc = "ffmpeg"
    /\ ttsPc' = "failed"
    /\ UNCHANGED <<ttsProg, segments, segIdx, chunkIdx, index, ttsRequest,
                   ttsResp, ttsAttempt, ttsSleep, buf, files, episode, disk,
                   listFile, ffmpegStarted>>

-----------------------------------------------------------------------------
(***************************************************************************)
(* parseDialogueScript (the same text in part_000 and generate-radio.js).  *)
(* A script is a sequence of one-character strings; a character outside    *)
(* ASCII is written by its code point ("U+53F8" "U+4F1A" is 司会, "U+76F8"  *)
(* "U+68D2" is 相棒, "U+FF1A" is the full-width colon).                     *)
(***************************************************************************)
IsSpace(c) == c \in {" ", "\t", "\r"}

RECURSIVE TrimLeft(_)
TrimLeft(s) == IF s # <<>> /\ IsSpace(s[1]) THEN TrimLeft(Tail(s)) ELSE s

RECURSIVE TrimRight(_)
TrimRight(s) ==
    IF s # <<>> /\ IsSpace(s[Len(s)]) THEN TrimRight(SubSeq(s, 1, Len(s) - 1)) ELSE s

\* l.trim()
Trim(s) == TrimLeft(TrimRight(s))

\* script.split(/\r?\n/): `acc` is the line being read
RECURSIVE SplitFrom(_, _)
SplitFrom(s, acc) ==
    IF s = <<>> THEN <<acc>>
    ELSE IF s[1] = "\n" THEN <<acc>> \o SplitFrom(Tail(s), <<>>)
    ELSE IF s[1] = "\r" /\ Len(s) > 1 /\ s[2] = "\n"
         THEN <<acc>> \o SplitFrom(SubSeq(s, 3, Len(s)), <<>>)
    ELSE SplitFrom(Tail(s), Append(acc, s[1]))

RECURSIVE NonEmptyLines(_)
NonEmptyLines(ls) ==
    IF ls = <<>> THEN <<>>
    ELSE (IF ls[1] = <<>> THEN <<>> ELSE <<ls[1]>>) \o NonEmptyLines(Tail(ls))

\* (script || '').split(/\r?\n/).map(l => l.trim()).filter(Boolean)
ScriptLines(s) ==
    LET raw == SplitFrom(s, <<>>)
    IN  NonEmptyLines([i \in 1..Len(raw) |-> Trim(raw[i])])

StartsWith(s, p) == Len(s) >= Len(p) /\ SubSeq(s, 1, Len(p)) = p

\* the labels of /^((?:司会)?A|(?:相棒)?B)[:：]\s*(.*)$/i, longest first
ColonLabels ==
    <<[mark |-> <<"U+53F8", "U+4F1A", "A">>, speaker |-> "A"],
      [mark |-> <<"U+53F8", "U+4F1A", "a">>, speaker |-> "A"],
      [mark |-> <<"U+76F8", "U+68D2", "B">>, speaker |-> "B"],
      [mark |-> <<"U+76F8", "U+68D2", "b">>, speaker |-> "B"],
      [mark |-> <<"A">>, speaker |-> "A"],
      [mark |-> <<"a">>, speaker |-> "A"],
      [mark |-> <<"B">>, speaker |-> "B"],
      [mark |-> <<"b">>, speaker |-> "B"]>>

ColonLabelMatches(raw, k) ==
    LET mark == ColonLabels[k].mark
    IN  /\ StartsWith(raw, mark)
        /\ Len(raw) > Len(mark)
        /\ raw[Len(mark) + 1] \in {":", "U+FF1A"}

NoLabel == [speaker |-> "none", text |-> <<>>]

\* mutant: the label is matched but the text keeps the label
MatchLabelKeepsLabel(raw) ==
    IF \E k \in DOMAIN ColonLabels : ColonLabelMatches(raw, k)
    THEN LET k == CHOOSE j \in DOMAIN ColonLabels : ColonLabelMatches(raw, j)
         IN  [speaker |-> ColonLabels[k].speaker, text |-> raw]
    ELSE NoLabel

\* the two label forms: `A:` / `B：` / `司会A:` / `相棒B：` (any case), and
\* /^(A|B)\s+(.*)$/; the text is what follows, trimmed
MatchLabel(raw) ==
    IF \E k \in DOMAIN ColonLabels : ColonLabelMatches(raw, k)
    THEN LET k == CHOOSE j \in DOMAIN ColonLabels : ColonLabelMatches(raw, j)
         IN  [speaker |-> ColonLabels[k].speaker,
              text |-> Trim(SubSeq(raw, Len(ColonLabels[k].mark) + 2, Len(raw)))]
    ELSE IF Len(raw) >= 2 /\ raw[1] \in {"A", "B"} /\ IsSpace(raw[2])
         THEN [speaker |-> raw[1], text |-> Trim(SubSeq(raw, 3, Len(raw)))]
         ELSE NoLabel

\* mutant: the first unlabeled line goes to A
DefaultSpeakerB == "B"

\* let lastSpeaker = 'A'
DefaultSpeaker == "A"

\* mutant: an unlabeled line keeps the last speaker
SpeakerOfInherit(label, last) ==
    IF label # "none" THEN label ELSE last

\* if (!speaker) speaker = lastSpeaker === 'A' ? 'B' : 'A'
SpeakerOf(label, last) ==
    IF label # "none" THEN label
    ELSE IF last = "A" THEN "B" ELSE "A"

\* lines a script is made of, with the speaker label each one carries
SampleLines ==
    {[raw |-> <<"A", ":", " ", "x">>, label |-> "A"],
     [raw |-> <<"B", "U+FF1A", "y">>, label |-> "B"],
     [raw |-> <<"U+53F8", "U+4F1A", "A", ":", " ", "x">>, label |-> "A"],
     [raw |-> <<"U+76F8", "U+68D2", "b", "U+FF1A", " ", "y">>, label |-> "B"],
     [raw |-> <<"a", ":", "x">>, label |-> "A"],
     [raw |-> <<"B", " ", "y">>, label |-> "B"],
     [raw |-> <<" ", "A", ":", " ", "x", " ">>, label |-> "A"],
     [raw |-> <<"B", ":">>, label |-> "B"],
     [raw |-> <<"z">>, label |-> "none"],
     [raw |-> <<"b", " ", "y">>, label |-> "none"],
     [raw |-> <<"U+53F8", "U+4F1A", "B", ":", "y">>, label |-> "none"],
     [raw |-> <<" ">>, label |-> "none"]}

RECURSIVE JoinLines(_)
JoinLines(ls) ==
    IF ls = <<>> THEN <<>>
    ELSE IF Len(ls) = 1 THEN ls[1]
    ELSE ls[1] \o <<"\n">> \o JoinLines(Tail(ls))

\* "A: hello\nworld\nB: done"
ExampleScript ==
    <<"A", ":", " ", "h", "e", "l", "l", "o", "\n",
      "w", "o", "r", "l", "d", "\n",
      "B", ":", " ", "d", "o", "n", "e">>

Scripts ==
    {ExampleScript} \cup
    {JoinLines(ls) : ls \in UNION {[1..n -> {l.raw : l \in SampleLines}] : n \in 0..MaxLines}}

InitParse ==
    /\ script \in Scripts
    /\ lines = <<>>
    /\ lineIdx = 0
    /\ lastSpeaker = DefaultSpeaker
    /\ lineSpeakers = <<>>
    /\ turns = <<>>
    /\ parsePc = "split"

\* const lines = ...; const segments = []; let lastSpeaker = 'A'
ParseSplit ==
    /\ parsePc = "split"
    /\ lines' = ScriptLines(script)
    /\ lineIdx' = 1
    /\ parsePc' = "loop"
    /\ UNCHANGED <<script, lastSpeaker, lineSpeakers, turns>>

\* one pass of `for (const raw of lines)`
ParseLine ==
    /\ parsePc = "loop"
    /\ lineIdx <= Len(lines)
    /\ LET m       == MatchLabel(lines[lineIdx])
           speaker == SpeakerOf(m.speaker, lastSpeaker)
           text    == IF m.speaker = "none" THEN lines[lineIdx] ELSE m.text
       IN  /\ lastSpeaker' = speaker
           /\ lineSpeakers' = Append(lineSpeakers, speaker)
           /\ turns' = IF text # <<>>
                       THEN Append(turns, [speaker |-> speaker, text |-> text])
                       ELSE turns
    /\ lineIdx' = lineIdx + 1
    /\ UNCHANGED <<script, lines, parsePc>>

\* return segments
ParseReturn ==
    /\ parsePc = "loop"
    /\ lineIdx > Len(lines)
    /\ parsePc' = "done"
    /\ UNCHANGED <<script, lines, lineIdx, lastSpeaker, lineSpeakers, turns>>

-----------------------------------------------------------------------------
(***************************************************************************)
(* The time window of a run without --date: getDefaultJstEndUtcNow and the *)
(* first lines of main.  An instant is a number of ticks since             *)
(* 1970-01-01T00:00Z, TicksPerHour ticks to the hour.                      *)
(***************************************************************************)
Hour == TicksPerHour

Day == 24 * Hour

\* the values `new Date()` may have
Instants == (FirstDay * Day)..((FirstDay + MaxDays) * Day - 1)

IsLeap(y) == (y % 4 = 0 /\ y % 100 # 0) \/ y % 400 = 0

\* months are 0..11 as in JavaScript
DaysInMonth(y, m) ==
    IF m = 1 THEN (IF IsLeap(y) THEN 29 ELSE 28)
    ELSE IF m \in {3, 5, 8, 10} THEN 30 ELSE 31

\* the calendar date n days after the date y-m-d
RECURSIVE CivilFrom(_, _, _, _)
CivilFrom(y, m, d, n) ==
    IF n = 0 THEN [year |-> y, month |-> m, day |-> d]
    ELSE IF d + n <= DaysInMonth(y, m) THEN [year |-> y, month |-> m, day |-> d + n]
    ELSE LET rest == n - (DaysInMonth(y, m) - d) - 1
         IN  IF m = 11 THEN CivilFrom(y + 1, 0, 1, rest)
             ELSE CivilFrom(y, m + 1, 1, rest)

\* getUTCFullYear, getUTCMonth, getUTCDate
UtcDate(t) == CivilFrom(1970, 0, 1, t \div Day)

\* getUTCHours
UtcHours(t) == (t % Day) \div Hour

\* the number of days from 1970-01-01 to y-m-d
RECURSIVE DaysBefore(_, _)
DaysBefore(y, m) ==
    IF y = 1970 /\ m = 0 THEN 0
    ELSE IF m = 0 THEN DaysBefore(y - 1, 11) + DaysInMonth(y - 1, 11)
    ELSE DaysBefore(y, m - 1) + DaysInMonth(y, m - 1)

\* Date.UTC(year, month, day, hours, 0, 0, 0)
DateUTC(y, m, d, h) == (DaysBefore(y, m) + d - 1) * Day + h * Hour

\* mutant: the hour of the boundary itself counts as before it
BeforeBoundaryInclusive(hours) == hours <= 4

\* if (hours < 4)
BeforeBoundary(hours) == hours < 4

\* mutant: the boundary is taken on the UTC date of `now`
ToJstIdentity(t) == t

\* nowUtc.getTime() + 9 * 60 * 60 * 1000
ToJst(t) == t + 9 * Hour

getDefaultJstEndUtcNow(nowUtc) ==
    LET nowJst     == ToJst(nowUtc)
        date       == UtcDate(nowJst)
        hours      == UtcHours(nowJst)
        todayBase  == DateUTC(date.year, date.month, date.day, 4)
        endJstBase == IF BeforeBoundary(hours) THEN todayBase - 24 * Hour
                      ELSE todayBase
    IN  endJstBase - 9 * Hour

InitWindow ==
    /\ now \in Instants
    /\ winEnd = 0
    /\ winStart = 0
    /\ winPc = "start"

\* const endUtc = getDefaultJstEndUtcNow();
\* const startUtc = new Date(endUtc.getTime() - 24 * 60 * 60 * 1000)
WindowNow ==
    /\ winPc = "start"
    /\ winEnd' = getDefaultJstEndUtcNow(now)
    /\ winStart' = getDefaultJstEndUtcNow(now) - 24 * Hour
    /\ winPc' = "done"
    /\ now' = now

-----------------------------------------------------------------------------
(***************************************************************************)
(* normalizeUrl.  A URL string is a sequence of tokens: the scheme         *)
(* "http://", a host name, the characters "/" and "a" of the path, "?",    *)
(* the parameters "key=value" with "&" between them, "#" and the           *)
(* characters of the fragment.  new URL, searchParams and toString are the *)
(* WHATWG URL parser and serializer as far as these strings need them.     *)
(***************************************************************************)
\* the parameters a query is made of: the text in the string, the key, and
\* the text the form-urlencoded serializer writes for it
ParamTable ==
    {[raw |-> "utm_source=x", key |-> "utm_source", canon |-> "utm_source=x"],
     [raw |-> "utm_medium=x", key |-> "utm_medium", canon |-> "utm_medium=x"],
     [raw |-> "utm_campaign=x", key |-> "utm_campaign", canon |-> "utm_campaign=x"],
     [raw |-> "utm_term=x", key |-> "utm_term", canon |-> "utm_term=x"],
     [raw |-> "utm_content=x", key |-> "utm_content", canon |-> "utm_content=x"],
     [raw |-> "utm_source=w", key |-> "utm_source", canon |-> "utm_source=w"],
     [raw |-> "gclid=y", key |-> "gclid", canon |-> "gclid=y"],
     [raw |-> "fbclid=z", key |-> "fbclid", canon |-> "fbclid=z"],
     [raw |-> "id=1", key |-> "id", canon |-> "id=1"],
     [raw |-> "q=%20", key |-> "q", canon |-> "q=+"],
     [raw |-> "q=+", key |-> "q", canon |-> "q=+"]}

ParamOf(tok) == CHOOSE p \in ParamTable : p.raw = tok

IsParam(tok) == \E p \in ParamTable : p.raw = tok

\* const paramsToRemove = [...]
paramsToRemove ==
    {"utm_source", "utm_medium", "utm_campaign", "utm_term", "utm_content",
     "gclid", "fbclid"}

HostNames == {"h.com", "H.COM"}

\* hostname.toLowerCase(), also done by the parser
LowerHost(h) == IF h = "H.COM" THEN "h.com" ELSE h

\* the index of the first token of s, from i on, that is in `stops`;
\* Len(s) + 1 when there is none
RECURSIVE FindFrom(_, _, _)
FindFrom(s, i, stops) ==
    IF i > Len(s) THEN Len(s) + 1
    ELSE IF s[i] \in stops THEN i
    ELSE FindFrom(s, i + 1, stops)

\* the parameters of a query string, "&" dropped
RECURSIVE QueryParams(_)
QueryParams(q) ==
    IF q = <<>> THEN <<>>
    ELSE (IF IsParam(q[1]) THEN <<q[1]>> ELSE <<>>) \o QueryParams(Tail(q))

NotAUrl == [ok |-> FALSE, host |-> "", path |-> <<>>, params |-> <<>>,
            hasQuery |-> FALSE, frag |-> <<>>, hasFrag |-> FALSE]

\* new URL(rawUrl): a TypeError (ok = FALSE) without scheme or host
ParseUrl(s) ==
    IF Len(s) < 2 \/ s[1] # "http://" \/ s[2] \notin HostNames THEN NotAUrl
    ELSE LET pEnd == FindFrom(s, 3, {"?", "#"})
             qEnd == FindFrom(s, 3, {"#"})
             path == SubSeq(s, 3, pEnd - 1)
         IN  IF path # <<>> /\ path[1] # "/" THEN NotAUrl
             ELSE [ok |-> TRUE,
                   host |-> LowerHost(s[2]),
                   path |-> IF path = <<>> THEN <<"/">> ELSE path,
                   params |-> QueryParams(SubSeq(s, pEnd + 1, qEnd - 1)),
                   hasQuery |-> pEnd < qEnd,
                   frag |-> SubSeq(s, qEnd + 1, Len(s)),
                   hasFrag |-> qEnd <= Len(s)]

RECURSIVE JoinParams(_)
JoinParams(ps) ==
    IF ps = <<>> THEN <<>>
    ELSE IF Len(ps) = 1 THEN <<ParamOf(ps[1]).canon>>
    ELSE <<ParamOf(ps[1]).canon, "&">> \o JoinParams(Tail(ps))

\* url.toString()
SerializeUrl(u) ==
    <<"http://", u.host>> \o u.path
    \o (IF u.hasQuery THEN <<"?">> \o JoinParams(u.params) ELSE <<>>)
    \o (IF u.hasFrag THEN <<"#">> \o u.frag ELSE <<>>)

\* url.hash = ''
ClearHash(u) == [u EXCEPT !.frag = <<>>, !.hasFrag = FALSE]

RECURSIVE WithoutKeys(_, _)
WithoutKeys(ps, keys) ==
    IF ps = <<>> THEN <<>>
    ELSE (IF ParamOf(ps[1]).key \in keys THEN <<>> ELSE <<ps[1]>>)
         \o WithoutKeys(Tail(ps), keys)

\* mutant: the deny-list without the click identifiers
DeleteUtmOnly(u) ==
    LET kept == WithoutKeys(u.params, paramsToRemove \ {"gclid", "fbclid"})
    IN  [u EXCEPT !.params = kept, !.hasQuery = kept # <<>>]

\* for (const key of paramsToRemove) url.searchParams.delete(key): the query
\* is written again from the list, and is dropped when the list is empty
DeleteTracking(u) ==
    LET kept == WithoutKeys(u.params, paramsToRemove)
    IN  [u EXCEPT !.params = kept, !.hasQuery = kept # <<>>]

\* if (pathname.endsWith('/') && pathname.length > 1) pathname.slice(0, -1)
StripTrailingSlash(pathname) ==
    IF pathname[Len(pathname)] = "/" /\ Len(pathname) > 1
    THEN SubSeq(pathname, 1, Len(pathname) - 1)
    ELSE pathname

\* the body of the try block, for a string that parses
normalizeUrl(raw) ==
    LET url == DeleteTracking(ClearHash(ParseUrl(raw)))
    IN  IF ~ParseUrl(raw).ok THEN raw
        ELSE SerializeUrl([url EXCEPT !.path = StripTrailingSlash(url.path),
                                      !.host = LowerHost(url.host)])

Paths ==
    {<<>>} \cup
    UNION {{<<"/">> \o p : p \in [1..n -> {"/", "a"}]} : n \in 0..(MaxPathLen - 1)}

RECURSIVE JoinRaw(_)
JoinRaw(ps) ==
    IF ps = <<>> THEN <<>>
    ELSE IF Len(ps) = 1 THEN <<ps[1]>>
    ELSE <<ps[1], "&">> \o JoinRaw(Tail(ps))

\* the parameters the queries of the input strings are made of
QueryTokens == {"utm_source=x", "fbclid=z", "id=1", "q=%20"}

Queries ==
    {<<>>} \cup
    {<<"?">> \o JoinRaw(ps) :
        ps \in UNION {[1..n -> QueryTokens] : n \in 0..MaxParams}}

Fragments == {<<>>, <<"#">>, <<"#", "f">>}

\* strings that are no URL: empty, plain text, no scheme, no host
Garbage ==
    {<<>>, <<"x", "x">>, <<"h.com", "/", "a">>, <<"http://">>,
     <<"http://", "?", "id=1">>}

RawUrls ==
    Garbage \cup
    {<<"http://", h>> \o p \o q \o f :
        h \in HostNames, p \in Paths, q \in Queries, f \in Fragments}

InitUrl ==
    /\ rawUrl \in RawUrls
    /\ urlResult = <<>>
    /\ urlPc = "start"

\* new URL(rawUrl) succeeds: the try block runs to its return
NormalizeParsed ==
    /\ urlPc = "start"
    /\ ParseUrl(rawUrl).ok
    /\ urlResult' = normalizeUrl(rawUrl)
    /\ urlPc' = "returned"
    /\ rawUrl' = rawUrl

\* mutant: no catch, the TypeError of new URL leaves the function
NormalizeRaises ==
    /\ urlPc = "start"
    /\ ~ParseUrl(rawUrl).ok
    /\ urlPc' = "raised"
    /\ UNCHANGED <<rawUrl, urlResult>>

\* new URL(rawUrl) throws: catch { return rawUrl; }
NormalizeCatches ==
    /\ urlPc = "start"
    /\ ~ParseUrl(rawUrl).ok
    /\ urlResult' = rawUrl
    /\ urlPc' = "returned"
    /\ rawUrl' = rawUrl

-----------------------------------------------------------------------------
(***************************************************************************)
(* The forum fan-out: fetchForumChannelMessagesInRange of                  *)
(* scripts/generate-radio.js.  Threads are discovered in two listings (the *)
(* guild's active threads, then the forum's archived threads, page by      *)
(* page), and the messages of each discovered thread are fetched in turn.  *)
(***************************************************************************)

Threads == 1..MaxThreads

\* where an archive_timestamp lies: absent, not a date, more than seven days
\* before startUtc, within the seven days before startUtc, or at/after it
ArchiveTimes == {"none", "invalid", "old", "near", "recent"}

\* one entry of a `threads` array; a null entry has id 0
NullThread == [id |-> 0, parent |-> "other", archiveTs |-> "none"]

ActiveEntries ==
    [id : Threads, parent : {"forum", "other"}, archiveTs : {"none"}]
        \cup {NullThread}

ArchivedEntries ==
    [id : Threads, parent : {"forum"}, archiveTs : ArchiveTimes]
        \cup {NullThread}

\* the listings the API answers with: none, one or two entries
ListsOf(E) ==
    {<<>>} \cup {<<e>> : e \in E} \cup {<<e, f>> : e \in E, f \in E}

\* what fetchChannelMessagesInRange returns for a thread on success
ThreadMessages(t) ==
    {[i \in 1..n |-> [thread |-> t, n |-> i]] : n \in 0..MaxThreadMsgs}

NotFetched == [state |-> "pending", msgs |-> <<>>]

\* mutant: a list of threads, not a Map
SetThreadAppends(ths, id) == Append(ths, id)

\* threads.set(t.id, t): a Map keeps the position of a key it already has
SetThread(ths, id) == IF id \in Range(ths) THEN ths ELSE Append(ths, id)

\* for (const t of actThreads) if (t?.parent_id === forumChannelId) ...
RECURSIVE KeepActive(_, _, _)
KeepActive(ths, list, k) ==
    IF k > Len(list) THEN ths
    ELSE KeepActive(IF list[k] # NullThread /\ list[k].parent = "forum"
                    THEN SetThread(ths, list[k].id) ELSE ths,
                    list, k + 1)

\* at >= startUtc || at >= startUtc - 7 days (both false for an invalid date)
NearRange(ts) == ts \in {"near", "recent"}

\* for (const t of arr) { ... }: the entry with no archive_timestamp is kept
\* by `threads.set(t.id, t)`, which raises a TypeError on a null entry
RECURSIVE KeepArchived(_, _, _)
KeepArchived(ths, page, k) ==
    IF k > Len(page) THEN [threads |-> ths, raised |-> FALSE]
    ELSE IF page[k] = NullThread THEN [threads |-> ths, raised |-> TRUE]
    ELSE IF page[k].archiveTs = "none"
         THEN KeepArchived(SetThread(ths, page[k].id), page, k + 1)
    ELSE IF NearRange(page[k].archiveTs)
         THEN KeepArchived(SetThread(ths, page[k].id), page, k + 1)
    ELSE KeepArchived(ths, page, k + 1)

\* last?.thread_metadata?.archive_timestamp || last?.archive_timestamp
LastTs(page) == page[Len(page)].archiveTs

\* new Date(lastTs) < startUtc
OlderThanStart(ts) == ts \in {"old", "near"}

\* mutant: the loop of the archived listing has no hard stop
ArchivedLoopNoCap(i) == TRUE

\* for (let i = 0; i < 10; i++)
ArchivedLoopGoesOn(i) == i < ArchivedPageCap

\* `resp` is a variable of the listing loop: nothing of it is left once
\* the loop over the thread ids runs
NoAnswer == [kind |-> "none", lastTs |-> "none", hasMore |-> FALSE]

NothingListed == [active |-> {}, foreign |-> {}, archived |-> {}]

\* the ids the active listing gave with a parent_id
ListedUnder(list, parent) ==
    {list[k].id : k \in {j \in 1..Len(list) :
                            list[j] # NullThread /\ list[j].parent = parent}}

\* the ids of an archived page that pass the recency test, up to the entry
\* (if any) at which the loop over the page raises
ArchivedKept(page) ==
    {page[k].id : k \in {j \in 1..Len(page) :
                            /\ \A h \in 1..j : page[h] # NullThread
                            /\ \/ page[j].archiveTs = "none"
                               \/ NearRange(page[j].archiveTs)}}

InitForum ==
    /\ forumPc = "channel"
    /\ guildId = FALSE
    /\ threads = <<>>
    /\ archivedI = 0
    /\ archivedBefore = "none"
    /\ threadIdx = 1
    /\ threadOutcome = [t \in Threads |-> NotFetched]
    /\ allMessages = <<>>
    /\ forumResult = <<>>
    /\ forumLog = {}
    /\ archivedRequests = 0
    /\ archivedAnswer = NoAnswer
    /\ listed = NothingListed

\* const ch = await discordGetChannel(forumChannelId).catch(() => null);
\* const guildId = ch && ch.guild_id ? ch.guild_id : null;
ForumGetChannel ==
    /\ forumPc = "channel"
    /\ \E g \in BOOLEAN :
        /\ guildId' = g
        /\ forumPc' = IF g THEN "active" ELSE "archived"
    /\ UNCHANGED <<threads, archivedI, archivedBefore, threadIdx,
                   threadOutcome, allMessages, forumResult, forumLog>>
    /\ UNCHANGED <<archivedRequests, archivedAnswer, listed>>

\* the active-thread listing answered
ForumActiveListed ==
    /\ forumPc = "active"
    /\ \E list \in ListsOf(ActiveEntries) :
        /\ threads' = KeepActive(threads, list, 1)
        /\ listed' = [listed EXCEPT !.active = ListedUnder(list, "forum"),
                                    !.foreign = ListedUnder(list, "other")]
    /\ forumPc' = "archived"
    /\ UNCHANGED <<guildId, archivedI, archivedBefore, threadIdx,
                   threadOutcome, allMessages, forumResult, forumLog>>
    /\ UNCHANGED <<archivedRequests, archivedAnswer>>

\* the active-thread listing raised: logged, discovery goes on
ForumActiveFails ==
    /\ forumPc = "active"
    /\ forumLog' = forumLog \cup {"active"}
    /\ forumPc' = "archived"
    /\ UNCHANGED <<guildId, threads, archivedI, archivedBefore, threadIdx,
                   threadOutcome, allMessages, forumResult>>
    /\ UNCHANGED <<archivedRequests, archivedAnswer, listed>>

\* one iteration of `for (let i = 0; i < 10; i++)` whose listing answered
ForumArchivedPage ==
    /\ forumPc = "archived"
    /\ ArchivedLoopGoesOn(archivedI)
    /\ \E page \in ListsOf(ArchivedEntries), hasMore \in BOOLEAN :
        LET kept == KeepArchived(threads, page, 1) IN
        /\ archivedAnswer' =
                [kind    |-> IF page = <<>> THEN "empty"
                             ELSE IF kept.raised THEN "raised" ELSE "page",
                 lastTs  |-> IF page = <<>> THEN "none" ELSE LastTs(page),
                 hasMore |-> hasMore]
        /\ listed' = [listed EXCEPT !.archived = @ \cup ArchivedKept(page)]
        /\ IF page = <<>>
           THEN /\ forumPc' = "fetch"
                /\ UNCHANGED <<threads, archivedI, archivedBefore, forumLog>>
           ELSE IF kept.raised
           THEN \* the outer catch: discovery ends with what was found
                /\ threads' = kept.threads
                /\ forumLog' = forumLog \cup {"discovery"}
                /\ forumPc' = "fetch"
                /\ UNCHANGED <<archivedI, archivedBefore>>
           ELSE /\ threads' = kept.threads
                /\ archivedBefore' =
                       IF LastTs(page) = "none" THEN archivedBefore
                       ELSE LastTs(page)
                /\ IF \/ LastTs(page) = "none"
                      \/ OlderThanStart(LastTs(page))
                      \/ ~hasMore
                   THEN forumPc' = "fetch" /\ UNCHANGED archivedI
                   ELSE forumPc' = "archived" /\ archivedI' = archivedI + 1
                /\ UNCHANGED forumLog
    /\ UNCHANGED <<guildId, threadIdx, threadOutcome, allMessages,
                   forumResult>>
    /\ archivedRequests' = archivedRequests + 1

\* the archived listing raised: logged, `break`
ForumArchivedFails ==
    /\ forumPc = "archived"
    /\ ArchivedLoopGoesOn(archivedI)
    /\ forumLog' = forumLog \cup {"archived"}
    /\ archivedRequests' = archivedRequests + 1
    /\ archivedAnswer' = [kind |-> "failed", lastTs |-> "none", hasMore |-> FALSE]
    /\ UNCHANGED listed
    /\ forumPc' = "fetch"
    /\ UNCHANGED <<guildId, threads, archivedI, archivedBefore, threadIdx,
                   threadOutcome, allMessages, forumResult>>

\* the loop ends at its hard stop
ForumArchivedCap ==
    /\ forumPc = "archived"
    /\ ~ArchivedLoopGoesOn(archivedI)
    /\ forumPc' = "fetch"
    /\ UNCHANGED <<guildId, threads, archivedI, archivedBefore, threadIdx,
                   threadOutcome, allMessages, forumResult, forumLog>>
    /\ UNCHANGED <<archivedRequests, archivedAnswer, listed>>

\* const msgs = await fetchChannelMessagesInRange(tid, startUtc, endUtc);
\* if (msgs?.length) allMessages.push(...msgs);
ForumThreadFetched ==
    /\ forumPc = "fetch"
    /\ threadIdx <= Len(threads)
    /\ \E msgs \in ThreadMessages(threads[threadIdx]) :
        /\ threadOutcome' = [threadOutcome EXCEPT ![threads[threadIdx]] =
                                [state |-> "returned", msgs |-> msgs]]
        /\ allMessages' = allMessages \o msgs
    /\ threadIdx' = threadIdx + 1
    /\ UNCHANGED <<forumPc, guildId, threads, archivedI, archivedBefore,
                   forumResult, forumLog>>
    /\ archivedAnswer' = NoAnswer
    /\ UNCHANGED <<archivedRequests, listed>>

\* mutant: the failure of one thread leaves the function
ForumThreadFailurePropagates ==
    /\ forumPc = "fetch"
    /\ threadIdx <= Len(threads)
    /\ threadOutcome' = [threadOutcome EXCEPT ![threads[threadIdx]] =
                            [state |-> "raised", msgs |-> <<>>]]
    /\ forumPc' = "raised"
    /\ UNCHANGED <<guildId, threads, archivedI, archivedBefore, threadIdx,
                   allMessages, forumResult, forumLog>>
    /\ archivedAnswer' = NoAnswer
    /\ UNCHANGED <<archivedRequests, listed>>

\* fetchChannelMessagesInRange raised (a non-2xx, non-429 answer, a network
\* error): caught, logged, the loop goes to the next thread
ForumThreadFails ==
    /\ forumPc = "fetch"
    /\ threadIdx <= Len(threads)
    /\ threadOutcome' = [threadOutcome EXCEPT ![threads[threadIdx]] =
                            [state |-> "raised", msgs |-> <<>>]]
    /\ threadIdx' = threadIdx + 1
    /\ UNCHANGED <<forumPc, guildId, threads, archivedI, archivedBefore,
                   allMessages, forumResult, forumLog>>
    /\ archivedAnswer' = NoAnswer
    /\ UNCHANGED <<archivedRequests, listed>>

\* return allMessages;
ForumReturn ==
    /\ forumPc = "fetch"
    /\ threadIdx > Len(threads)
    /\ forumResult' = allMessages
    /\ forumPc' = "done"
    /\ UNCHANGED <<guildId, threads, archivedI, archivedBefore, threadIdx,
                   threadOutcome, allMessages, forumLog>>
    /\ archivedAnswer' = NoAnswer
    /\ UNCHANGED <<archivedRequests, listed>>

-----------------------------------------------------------------------------
(***************************************************************************)
(* The URLs of a channel: main of generate-radio.js, lines 671-675 and     *)
(* 749-752 (part_000: 395-397 and 403-406).  Messages come from            *)
(* fetchChannelMessagesInRange, filterAndExtractFromMessages gives each    *)
(* kept message its normalized URLs, the URLs are deduplicated, cut to     *)
(* maxArticleCount and handed to fetchArticleContent.                      *)
(***************************************************************************)

\* normalized URLs
UrlNames == 1..MaxUrlNames

\* extractUrlsFromString(combined).map(normalizeUrl) of one message
UrlLists2 ==
    {<<>>} \cup {<<u>> : u \in UrlNames}
           \cup {<<u, v>> : u \in UrlNames, v \in UrlNames}

\* a message of the window: written by a user, or a system/bot message
SharedMsgs ==
    [bot : {FALSE}, urls : UrlLists2] \cup [bot : {TRUE}, urls : {<<1>>}]

\* mutant: repeated values are kept
KeepRepeats(list) == list

\* Array.from(new Set(list)): the first occurrence of each value is kept
RECURSIVE Dedupe(_)
Dedupe(list) ==
    IF list = <<>> THEN <<>>
    ELSE LET front == Dedupe(SubSeq(list, 1, Len(list) - 1))
             last == list[Len(list)]
         IN  IF last \in Range(front) THEN front ELSE Append(front, last)

\* list.slice(0, n)
Slice(list, n) == SubSeq(list, 1, Min(n, Len(list)))

\* the while loop of fetchChannelMessagesInRange over a source that follows
\* the cursor: what `collected` holds when the loop ends
RECURSIVE Paginate(_, _, _, _)
Paginate(h, b, s, e) ==
    LET page == HonestPage(h, b)
        sorted == SortByTimestamp(page)
    IN  IF page = <<>> THEN <<>>
        ELSE SelectInWindow(sorted, s, e)
             \o (IF PagerStops(sorted, s) THEN <<>>
                 ELSE Paginate(h, NextCursor(sorted), s, e))

\* filterAndExtractFromMessages: system and bot messages are skipped, the
\* URLs of a message are deduplicated
RECURSIVE Extract(_, _)
Extract(msgs, sh) ==
    IF msgs = <<>> THEN <<>>
    ELSE (IF sh[msgs[1].id].bot THEN <<>>
          ELSE <<[id |-> msgs[1].id, ts |-> msgs[1].ts,
                  urls |-> Dedupe(sh[msgs[1].id].urls)]>>)
         \o Extract(Tail(msgs), sh)

\* extracted.flatMap(m => m.urls)
RECURSIVE FlatUrls(_)
FlatUrls(ex) == IF ex = <<>> THEN <<>> ELSE ex[1].urls \o FlatUrls(Tail(ex))

\* the channel: message i was written at time i (ids grow with time)
ChannelHistory(n) == [i \in 1..n |-> i]

InitSelect ==
    /\ shared \in UNION {[1..n -> SharedMsgs] : n \in 0..MaxShared}
    /\ messages = <<>>
    /\ extracted = <<>>
    /\ allUrls = <<>>
    /\ limitedUrls = <<>>
    /\ fetchCalls = <<>>
    /\ selPc = "listing"

\* messages = await fetchChannelMessagesInRange(channelId, startUtc, endUtc),
\* every message of the channel being inside the window
SelectListed ==
    /\ selPc = "listing"
    /\ messages' = Paginate(ChannelHistory(Len(shared)), 0, 1, Len(shared) + 1)
    /\ selPc' = "extract"
    /\ UNCHANGED <<shared, extracted, allUrls, limitedUrls, fetchCalls>>

\* const extracted = filterAndExtractFromMessages(messages);
\* const allUrls = Array.from(new Set(extracted.flatMap(m => m.urls)));
\* const limitedUrls = allUrls.slice(0, maxArticleCount);
SelectUrls ==
    /\ selPc = "extract"
    /\ extracted' = Extract(messages, shared)
    /\ allUrls' = Dedupe(FlatUrls(extracted'))
    /\ limitedUrls' = Slice(allUrls', maxArticleCount)
    /\ selPc' = "batch"
    /\ UNCHANGED <<shared, messages, fetchCalls>>

\* limitedUrls.map(u => limit(() => fetchArticleContent(u))): one call of
\* fetchArticleContent is made for each element
SelectStartBatch ==
    /\ selPc = "batch"
    /\ fetchCalls' = limitedUrls
    /\ selPc' = "fetching"
    /\ UNCHANGED <<shared, messages, extracted, allUrls, limitedUrls>>

-----------------------------------------------------------------------------
(***************************************************************************)
(* The specifications.  Each one runs one part of the program from its     *)
(* initial states; the variables of the other parts rest.                  *)
(***************************************************************************)
\* the components a specification does not run
IdlePager ==
    /\ history = <<>>
    /\ srcMode = "honest"
    /\ startUtc = 0
    /\ endUtc = 0
    /\ before = 0
    /\ collected = <<>>
    /\ pagerPc = "idle"
    /\ attempt = 0
    /\ sleepFor = 0
    /\ pagesServed = 0
    /\ lastPage = <<>>
    /\ retryHeader = -1

IdleRun ==
    /\ runProg = "radio"
    /\ runMode = "single"
    /\ dateArg = "none"
    /\ nChannels = 0
    /\ runPc = "idle"
    /\ chan = 0
    /\ listingFailed = {}
    /\ listingRequests = 0
    /\ materials = {}
    /\ scriptsBuilt = 0
    /\ synthStarted = 0
    /\ segmentCount = 0
    /\ episodes = 0
    /\ outputsSaved = 0

IdleBatch ==
    /\ urls = <<>>
    /\ taskPc = <<>>
    /\ result = <<>>
    /\ embedFailed = {}
    /\ pageFailed = {}
    /\ queue = <<>>
    /\ activeCount = 0
    /\ batchPc = "idle"
    /\ articles = <<>>
    /\ firstDone = 0

IdleTts ==
    /\ ttsProg = "radio"
    /\ segments = <<>>
    /\ segIdx = 1
    /\ chunkIdx = 1
    /\ index = 0
    /\ ttsRequest = NoRequest
    /\ ttsResp = NoResponse
    /\ ttsAttempt = 0
    /\ ttsSleep = 0
    /\ buf = <<>>
    /\ files = <<>>
    /\ episode = <<>>
    /\ disk = <<>>
    /\ listFile = <<>>
    /\ ffmpegStarted = FALSE
    /\ ttsPc = "idle"

IdleParse ==
    /\ script = <<>>
    /\ lines = <<>>
    /\ lineIdx = 0
    /\ lastSpeaker = DefaultSpeaker
    /\ lineSpeakers = <<>>
    /\ turns = <<>>
    /\ parsePc = "idle"

IdleWindow ==
    /\ now = 0
    /\ winEnd = 0
    /\ winStart = 0
    /\ winPc = "idle"

IdleUrl ==
    /\ rawUrl = <<>>
    /\ urlResult = <<>>
    /\ urlPc = "idle"

IdleForum ==
    /\ forumPc = "idle"
    /\ guildId = FALSE
    /\ threads = <<>>
    /\ archivedI = 0
    /\ archivedBefore = "none"
    /\ threadIdx = 1
    /\ threadOutcome = [t \in Threads |-> NotFetched]
    /\ allMessages = <<>>
    /\ forumResult = <<>>
    /\ forumLog = {}
    /\ archivedRequests = 0
    /\ archivedAnswer = NoAnswer
    /\ listed = NothingListed

IdleSelect ==
    /\ shared = <<>>
    /\ messages = <<>>
    /\ extracted = <<>>
    /\ allUrls = <<>>
    /\ limitedUrls = <<>>
    /\ fetchCalls = <<>>
    /\ selPc = "idle"

OnlyPager == UNCHANGED <<runVars, batchVars, ttsVars, parseVars, windowVars, urlVars, forumVars, selectVars>>

NextPager ==
    \/ PagerIssue /\ OnlyPager
    \/ PagerRateLimited /\ OnlyPager
    \/ PagerRetry /\ OnlyPager
    \/ PagerApiError /\ OnlyPager
    \/ PagerPage /\ OnlyPager
    \/ PagerNotArray /\ OnlyPager

StartPager ==
    InitPager /\ IdleRun /\ IdleBatch /\ IdleTts /\ IdleParse /\ IdleWindow
    /\ IdleUrl
    /\ IdleForum
    /\ IdleSelect

SpecPager == StartPager /\ [][NextPager]_vars

\* the event loop runs every step that can run, and the source answers every
\* request (with whatever answer it chooses)
SpecPagerFair == SpecPager /\ WF_vars(NextPager)

OnlyRun == UNCHANGED <<pagerVars, batchVars, ttsVars, parseVars, windowVars, urlVars, forumVars, selectVars>>

NextRun ==
    \/ RunResolveWindow /\ OnlyRun
    \/ RunListingOk /\ OnlyRun
    \/ RunListingError /\ OnlyRun
    \/ RunArticles /\ OnlyRun
    \/ RunRadioPerChannel /\ OnlyRun
    \/ RunRadioScript /\ OnlyRun
    \/ RunLegacyScript /\ OnlyRun
    \/ RunLegacyScriptError /\ OnlyRun
    \/ RunSynthNothing /\ OnlyRun
    \/ RunSynthOk /\ OnlyRun
    \/ RunSynthError /\ OnlyRun
    \/ RunConcat /\ OnlyRun
    \/ RunConcatError /\ OnlyRun
    \/ RunSave /\ OnlyRun

StartRun ==
    InitRun /\ IdlePager /\ IdleBatch /\ IdleTts /\ IdleParse /\ IdleWindow
    /\ IdleUrl
    /\ IdleForum
    /\ IdleSelect

SpecRun == StartRun /\ [][NextRun]_vars

OnlyBatch == UNCHANGED <<pagerVars, runVars, ttsVars, parseVars, windowVars, urlVars, forumVars, selectVars>>

NextBatch ==
    \/ \E i \in 1..Len(urls) : EmbedOk(i) /\ OnlyBatch
    \/ \E i \in 1..Len(urls) : EmbedFail(i) /\ OnlyBatch
    \/ \E i \in 1..Len(urls) : ArticleFetchFails(i) /\ OnlyBatch
    \/ \E i \in 1..Len(urls) : PageNotHtml(i) /\ OnlyBatch
    \/ \E i \in 1..Len(urls) : PageHtml(i) /\ OnlyBatch
    \/ \E i \in 1..Len(urls) : BodyReadable(i) /\ OnlyBatch
    \/ \E i \in 1..Len(urls) : BodyFallback(i) /\ OnlyBatch
    \/ BatchCollect /\ OnlyBatch

StartBatch ==
    InitBatch /\ IdlePager /\ IdleRun /\ IdleTts /\ IdleParse /\ IdleWindow
    /\ IdleUrl
    /\ IdleForum
    /\ IdleSelect

SpecBatch == StartBatch /\ [][NextBatch]_vars

\* every fetch that is under way completes (fetchArticleContent has a 15 s
\* timer on its request and catches every error), and the event loop runs
\* every continuation that can run
SpecBatchFair == SpecBatch /\ WF_vars(NextBatch)

OnlyTts == UNCHANGED <<pagerVars, runVars, batchVars, parseVars, windowVars, urlVars, forumVars, selectVars>>

NextTts ==
    \/ TtsStart /\ OnlyTts
    \/ TtsIssue /\ OnlyTts
    \/ TtsRateLimited /\ OnlyTts
    \/ TtsRetry /\ OnlyTts
    \/ TtsHardFailure /\ OnlyTts
    \/ TtsAudio /\ OnlyTts
    \/ TtsAudioUrl /\ OnlyTts
    \/ TtsUrlFetched /\ OnlyTts
    \/ TtsUrlFailed /\ OnlyTts
    \/ TtsWrite /\ OnlyTts
    \/ TtsPace /\ OnlyTts
    \/ TtsConcat /\ OnlyTts
    \/ TtsFfmpegExit /\ OnlyTts
    \/ TtsConcatError /\ OnlyTts

StartTts ==
    InitTts /\ IdlePager /\ IdleRun /\ IdleBatch /\ IdleParse /\ IdleWindow
    /\ IdleUrl
    /\ IdleForum
    /\ IdleSelect

SpecTts == StartTts /\ [][NextTts]_vars

OnlyParse == UNCHANGED <<pagerVars, runVars, batchVars, ttsVars, windowVars, urlVars, forumVars, selectVars>>

NextParse ==
    \/ ParseSplit /\ OnlyParse
    \/ ParseLine /\ OnlyParse
    \/ ParseReturn /\ OnlyParse

StartParse ==
    InitParse /\ IdlePager /\ IdleRun /\ IdleBatch /\ IdleTts /\ IdleWindow
    /\ IdleUrl
    /\ IdleForum
    /\ IdleSelect

SpecParse == StartParse /\ [][NextParse]_vars

OnlyWindow == UNCHANGED <<pagerVars, runVars, batchVars, ttsVars, parseVars, urlVars, forumVars, selectVars>>

NextWindow == WindowNow /\ OnlyWindow

StartWindow ==
    InitWindow /\ IdlePager /\ IdleRun /\ IdleBatch /\ IdleTts /\ IdleParse
    /\ IdleUrl
    /\ IdleForum
    /\ IdleSelect

SpecWindow == StartWindow /\ [][NextWindow]_vars

OnlyUrl ==
    UNCHANGED <<pagerVars, runVars, batchVars, ttsVars, parseVars, windowVars, forumVars, selectVars>>

NextUrl ==
    \/ NormalizeParsed /\ OnlyUrl
    \/ NormalizeCatches /\ OnlyUrl

StartUrl ==
    InitUrl /\ IdlePager /\ IdleRun /\ IdleBatch /\ IdleTts /\ IdleParse
    /\ IdleWindow
    /\ IdleForum
    /\ IdleSelect

SpecUrl == StartUrl /\ [][NextUrl]_vars

OnlyForum ==
    UNCHANGED <<pagerVars, runVars, batchVars, ttsVars, parseVars, windowVars,
                urlVars, selectVars>>

NextForum ==
    \/ ForumGetChannel /\ OnlyForum
    \/ ForumActiveListed /\ OnlyForum
    \/ ForumActiveFails /\ OnlyForum
    \/ ForumArchivedPage /\ OnlyForum
    \/ ForumArchivedFails /\ OnlyForum
    \/ ForumArchivedCap /\ OnlyForum
    \/ ForumThreadFetched /\ OnlyForum
    \/ ForumThreadFails /\ OnlyForum
    \/ ForumReturn /\ OnlyForum

StartForum ==
    InitForum /\ IdlePager /\ IdleRun /\ IdleBatch /\ IdleTts /\ IdleParse
    /\ IdleWindow /\ IdleUrl
    /\ IdleSelect

SpecForum == StartForum /\ [][NextForum]_vars

OnlySelect ==
    UNCHANGED <<pagerVars, runVars, batchVars, ttsVars, parseVars, windowVars,
                urlVars, forumVars>>

NextSelect ==
    \/ SelectListed /\ OnlySelect
    \/ SelectUrls /\ OnlySelect
    \/ SelectStartBatch /\ OnlySelect

StartSelect ==
    InitSelect /\ IdlePager /\ IdleRun /\ IdleBatch /\ IdleTts /\ IdleParse
    /\ IdleWindow /\ IdleUrl /\ IdleForum

SpecSelect == StartSelect /\ [][NextSelect]_vars

-----------------------------------------------------------------------------
(***************************************************************************)
(* Properties of the pager.                                                *)
(***************************************************************************)

\* C1: every message in the list of fetchChannelMessagesInRange has
\* startUtc <= timestamp < endUtc, whatever pages the source answered with.
C1_CollectedInWindow ==
    \A i \in 1..Len(collected) :
        startUtc <= collected[i].ts /\ collected[i].ts < endUtc

\* a run whose last page straddled the window start, after a page that held a
\* message at or after the window end, and that kept something
C1_Witness ==
    /\ pagerPc = "returned"
    /\ collected # <<>>
    /\ \E i \in 1..Len(lastPage) : lastPage[i].ts < startUtc
    /\ \E i \in 1..Len(lastPage) : lastPage[i].ts >= startUtc
    /\ \E i \in DOMAIN history : history[i] >= endUtc
    /\ pagesServed >= 2

\* C2: with a source that answers each request with the newest messages
\* strictly older than the cursor, the pager asks for finitely many pages:
\* the cursor falls with every page, so a history of n messages is read in at
\* most n + 1 pages, after which the pager has returned.
C2_FinitelyManyPages ==
    srcMode = "honest" =>
        /\ pagesServed <= Len(history) + 1
        /\ pagesServed >= 1 /\ ~PagerEnded => before + pagesServed <= Len(history) + 1
        /\ pagesServed = Len(history) + 1 => pagerPc = "returned"

\* a history whose size is an exact multiple of the page size, read to its
\* end: the last request was answered with an empty page
C2_Witness ==
    /\ srcMode = "honest"
    /\ pagerPc = "returned"
    /\ Len(history) > 0
    /\ Len(history) % PageLimit = 0
    /\ lastPage = <<>>
    /\ pagesServed = Len(history) \div PageLimit + 1

\* C3: a 429 puts the request to sleep and the wake-up re-issues it, once,
\* with the same cursor; cursor and collected list are as before the attempt.
C3_RateLimitReissuesSameRequest ==
    [][/\ (pagerPc = "awaiting" /\ pagerPc' = "sleeping") =>
            (before' = before /\ collected' = collected /\ attempt' = attempt
             /\ sleepFor' >= 1)
       /\ pagerPc = "sleeping" =>
            (/\ pagerPc' = "awaiting"
             /\ before' = before
             /\ collected' = collected
             /\ attempt < MaxAttempts => attempt' = attempt + 1)]_vars

\* a re-issued request in flight on a later page, with messages already kept
C3_Witness ==
    /\ pagerPc = "awaiting"
    /\ attempt = 2
    /\ before # 0
    /\ collected # <<>>

\* C5 as stated: every request ends, by success or by failure, after finitely
\* many attempts, whatever the source answers.
C5_EveryRequestEnds == <>PagerEnded

\* C5 as amended: the retry loop of discordApiRequest has no cap. At every
\* attempt count a sleeping request is re-issued, never failed or dropped.
C5_RetryHasNoCap ==
    [][\A n \in 1..MaxAttempts :
          (pagerPc = "sleeping" /\ attempt = n) =>
              (pagerPc' = "awaiting" /\ attempt' >= n)]_vars

\* a request rate-limited again after the attempt counter has saturated
C5_Witness ==
    /\ pagerPc = "sleeping"
    /\ attempt = MaxAttempts

-----------------------------------------------------------------------------
(***************************************************************************)
(* Properties of the run.                                                  *)
(***************************************************************************)

\* C4: once the message listing of a source channel has raised, the run is
\* aborted: no script is built, no speech is synthesized, no episode is
\* written, the run does not go on with another stage.
C4_ListingErrorAbortsRun ==
    listingFailed # {} =>
        /\ runPc = "failed"
        /\ scriptsBuilt = 0
        /\ synthStarted = 0
        /\ episodes = 0

-----------------------------------------------------------------------------
(***************************************************************************)
(* Properties of the article batch.                                        *)
(***************************************************************************)

\* C6: at every instant at most maxConcurrency fetchArticleContent calls
\* have started and not yet completed.
C6_AtMostKInFlight == Cardinality(InFlight) <= maxConcurrency

\* more URLs than slots: a call has returned, the waiting one has taken its
\* slot and the limiter is full again
C6_Witness ==
    /\ Len(urls) > maxConcurrency
    /\ Cardinality(InFlight) = maxConcurrency
    /\ \E i \in 1..Len(urls) : taskPc[i] = "done"

\* C7 as stated: fetchArticleContent never raises, and an error at any stage
\* (the oEmbed request included) gives the empty Article.
C7_AnyErrorGivesEmpty ==
    /\ batchPc # "failed"
    /\ \A i \in 1..Len(urls) :
          /\ taskPc[i] # "raised"
          /\ (taskPc[i] = "done" /\ i \in embedFailed \cup pageFailed) =>
                result[i] = EmptyArticle(i)

\* C7 as amended: fetchArticleContent never raises; an error of the page
\* fetch, of the body read or of the parse gives the empty Article, while a
\* failed oEmbed request only sends the call on to the page fetch; the batch
\* completes with the result of every URL, and keeps every other Article.
C7_PageErrorGivesEmpty ==
    /\ batchPc # "failed"
    /\ \A i \in 1..Len(urls) :
          /\ taskPc[i] # "raised"
          /\ (taskPc[i] = "done" /\ i \in pageFailed) => result[i] = EmptyArticle(i)
          /\ (i \in embedFailed /\ i \notin pageFailed) => taskPc[i] \in {"page", "body", "done"}
    /\ batchPc = "collected" =>
          /\ \A i \in 1..Len(urls) : taskPc[i] = "done" /\ result[i].url = i
          /\ \A i \in 1..Len(urls) :
                Kept(result[i]) => \E k \in 1..Len(articles) : articles[k] = result[i]

\* a finished batch in which one URL failed and another gave a kept Article
C7_Witness ==
    /\ batchPc = "collected"
    /\ pageFailed # {}
    /\ articles # <<>>
    /\ \E i \in 1..Len(urls) : i \in embedFailed /\ i \notin pageFailed /\ Kept(result[i])

-----------------------------------------------------------------------------
(***************************************************************************)
(* Properties of the synthesis.                                            *)
(***************************************************************************)

\* the three answers of the example: {data:{audio:"68656c6c6f"}},
\* {audio:"aGVsbG8="} and the raw audio body
HelloResponses == {BareHexEnvelope, AudioEnvelope, RawHello}

\* C8: whichever of the three answers the provider gives, minimaxT2ARequest
\* returns the bytes of "hello".
C8_ThreeShapesGiveHello ==
    (ttsResp \in HelloResponses /\ ttsPc # "awaiting") =>
        (ttsPc # "failed" /\ buf = HelloBytes)

\* answers that are a hard failure in both programs: a 500, a body that is
\* not JSON, an envelope with none of the audio fields
HardFailures == ErrorResponses \cup {NotJson, EmptyEnvelope}

\* C9: a hard-failure answer ends the synthesis with an error. The failed
\* segment leaves no file and does not advance the ordinal, nothing runs
\* after the failure, and no episode is assembled.
C9_HardFailureAborts ==
    /\ [](ttsPc = "failed" => episode = <<>>)
    /\ [][/\ (ttsPc = "awaiting" /\ ttsResp' \in HardFailures) =>
               (ttsPc' = "failed" /\ files' = files /\ index' = index)
          /\ ttsPc = "failed" => ttsVars' = ttsVars]_vars

\* the second request of a dialogue is refused: one file is written, the
\* synthesis has failed
C9_Witness ==
    /\ ttsPc = "failed"
    /\ ttsResp \in HardFailures
    /\ Len(files) = 1
    /\ Len(segments) > 1

\* C10: a 429 puts the request to sleep (for the retry-after seconds, 1
\* without the header) and the same request (text, voice, ordinal) is sent
\* again, at every attempt count; the ordinal and the files do not change
\* meanwhile, a 429 never fails or skips the segment, and the first audio
\* answer after any number of 429 completes the request.
C10_RateLimitRetriesSameRequest ==
    [][/\ (ttsPc = "awaiting" /\ ttsResp'.status = 429) =>
            /\ ttsPc' = "sleeping"
            /\ ttsSleep' = (IF ttsResp'.retryAfter = -1 THEN 1 ELSE ttsResp'.retryAfter)
            /\ ttsRequest' = ttsRequest /\ index' = index /\ files' = files
       /\ ttsPc = "sleeping" =>
            /\ ttsPc' = "awaiting"
            /\ ttsRequest' = ttsRequest /\ index' = index /\ files' = files
            /\ ttsAttempt' = Min(ttsAttempt + 1, MaxAttempts)
       /\ (ttsPc = "awaiting" /\ ttsAttempt > 1 /\ ttsResp' = RawHello) =>
            (ttsPc' = "received" /\ buf' = HelloBytes)
       /\ index' # index => (ttsPc = "received" /\ index' = index + 1)]_vars

\* a later request of a dialogue, rate-limited after the attempt counter has
\* saturated
C10_Witness ==
    /\ ttsPc = "sleeping"
    /\ ttsAttempt = MaxAttempts
    /\ ttsSleep = 2
    /\ ttsRequest.idx > 0

-----------------------------------------------------------------------------
(***************************************************************************)
(* Properties of parseDialogueScript.                                      *)
(***************************************************************************)

\* the label a line of the script carries, by the table of lines
LabelOf(line) == (CHOOSE l \in SampleLines : Trim(l.raw) = line).label

Opposite(speaker) == IF speaker = "A" THEN "B" ELSE "A"

\* lines of the table are being read
FromSamples == script # ExampleScript

\* C11: the script "A: hello", "world", "B: done" parses to the turns
\* {A, "hello"}, {B, "world"}, {B, "done"}, in that order.
C11_ExampleTurns ==
    (script = ExampleScript /\ parsePc = "done") =>
        turns = <<[speaker |-> "A", text |-> <<"h", "e", "l", "l", "o">>],
                  [speaker |-> "B", text |-> <<"w", "o", "r", "l", "d">>],
                  [speaker |-> "B", text |-> <<"d", "o", "n", "e">>]>>

C11_Witness == script = ExampleScript /\ parsePc = "done" /\ Len(turns) = 3

\* C12 as stated: a line without a label gets the speaker of the line
\* before it.
C12_UnlabeledInherits ==
    FromSamples =>
        \A k \in 2..Len(lineSpeakers) :
            LabelOf(lines[k]) = "none" => lineSpeakers[k] = lineSpeakers[k - 1]

\* C12 as amended: a line without a label gets the speaker opposite to the
\* speaker of the line before it.
C12_UnlabeledAlternates ==
    FromSamples =>
        \A k \in 2..Len(lineSpeakers) :
            LabelOf(lines[k]) = "none" => lineSpeakers[k] = Opposite(lineSpeakers[k - 1])

\* an unlabeled line read after another line
C12_Witness ==
    /\ FromSamples
    /\ \E k \in 2..Len(lineSpeakers) :
          LabelOf(lines[k]) = "none" /\ LabelOf(lines[k - 1]) = "B"

\* C13: a labeled line gets the speaker of its label; an unlabeled line gets
\* the opposite of the last known speaker, which is A before the first line
\* and the speaker of the line before afterwards; lastSpeaker is that
\* speaker.
C13_LabelOrAlternate ==
    FromSamples =>
        /\ \A k \in 1..Len(lineSpeakers) :
              lineSpeakers[k] =
                 IF LabelOf(lines[k]) # "none" THEN LabelOf(lines[k])
                 ELSE IF k = 1 THEN "B"
                 ELSE Opposite(lineSpeakers[k - 1])
        /\ lineSpeakers # <<>> => lastSpeaker = lineSpeakers[Len(lineSpeakers)]
        /\ \A j \in 1..Len(turns) :
              \E k \in 1..Len(lineSpeakers) : turns[j].speaker = lineSpeakers[k]

\* a script of unlabeled lines only: B, A, B
C13_Witness ==
    /\ FromSamples
    /\ parsePc = "done"
    /\ Len(lines) = MaxLines
    /\ \A k \in 1..Len(lines) : LabelOf(lines[k]) = "none"
    /\ Len(turns) = MaxLines
    /\ turns[1].speaker = "B"

-----------------------------------------------------------------------------
(***************************************************************************)
(* Properties of concatAudioFiles.                                         *)
(***************************************************************************)

\* C14: the episode holds the stream of every segment file, each once, as it
\* is on the disk, and in the order of the ordinals 0, 1, 2, ...
C14_EpisodeIsInOrderConcat ==
    (ttsProg = "legacy" /\ ttsPc = "done" /\ files # <<>>) =>
        /\ Len(episode) = Len(files)
        /\ \A i \in 1..Len(files) :
              /\ files[i].ordinal = i - 1
              /\ episode[i] = disk[files[i]]

\* an episode of two segments with different audio
C14_Witness ==
    /\ ttsProg = "legacy"
    /\ ttsPc = "done"
    /\ Len(files) >= 2
    /\ disk[files[1]] # disk[files[2]]
    /\ episode = <<disk[files[1]], disk[files[2]]>>

\* C15: with no segment file concatAudioFiles returns at once: no episode,
\* no list file, no ffmpeg process, no error.
C15_NoSegmentsNoFile ==
    /\ [](files = <<>> =>
            (listFile = <<>> /\ ~ffmpegStarted /\ ttsPc # "ffmpeg"))
    /\ [][(ttsPc = "concat" /\ files = <<>>) =>
             (ttsPc' = "done" /\ episode' = <<>>)]_vars

\* a script without segments has gone through concatAudioFiles
C15_Witness ==
    /\ ttsProg = "legacy"
    /\ segments = <<>>
    /\ ttsPc = "done"
    /\ episode = <<>>

-----------------------------------------------------------------------------
(***************************************************************************)
(* Properties of the time window.                                          *)
(***************************************************************************)

\* the 04:00 JST boundaries are the instants k days + 19 hours; the interval
\* of t is counted by the boundaries at or before t
IntervalOf(t) == (t - 19 * Hour) \div Day

\* C16: every instant of the interval of `now` resolves to the end `now`
\* resolves to, and every instant of the next interval to that end plus 24
\* hours.
C16_SameIntervalSameEnd ==
    winPc = "done" =>
        \A t \in Instants :
            /\ IntervalOf(t) = IntervalOf(now) => getDefaultJstEndUtcNow(t) = winEnd
            /\ IntervalOf(t) = IntervalOf(now) + 1 =>
                  getDefaultJstEndUtcNow(t) = winEnd + 24 * Hour

\* `now` in the first hour after a boundary
C16_Witness ==
    /\ winPc = "done"
    /\ now % Day = 19 * Hour + 1
    /\ \E t \in Instants : IntervalOf(t) = IntervalOf(now) + 1

\* C17: the end is the last 04:00 JST (19:00 UTC) at or before `now`, and the
\* start is 24 hours before the end.
C17_EndIsLastBoundary ==
    winPc = "done" =>
        /\ winEnd % Day = 19 * Hour
        /\ winEnd <= now
        /\ now < winEnd + 24 * Hour
        /\ winStart = winEnd - 24 * Hour
        /\ winStart < winEnd

\* `now` at 03:xx JST, after the UTC date has changed at the end of February
C17_Witness ==
    /\ winPc = "done"
    /\ UtcHours(ToJst(now)) = 3
    /\ UtcDate(ToJst(now)).month = 2
    /\ UtcDate(now).month = 1
    /\ winEnd < now

-----------------------------------------------------------------------------
(***************************************************************************)
(* Properties of normalizeUrl.                                             *)
(***************************************************************************)

TrackingParams == {p.raw : p \in {q \in ParamTable : q.key \in paramsToRemove}}

\* where the path of a URL string ends, and where its query ends
PathEnd(s) == FindFrom(s, 3, {"?", "#"})

QueryEnd(s) == FindFrom(s, 3, {"#"})

PathOf(s) == SubSeq(s, 3, PathEnd(s) - 1)

\* s with one more slash at the end of its path
AddSlash(s) ==
    SubSeq(s, 1, PathEnd(s) - 1) \o <<"/">> \o SubSeq(s, PathEnd(s), Len(s))

\* s with the fragment f in place of its own
WithFragment(s, f) == SubSeq(s, 1, QueryEnd(s) - 1) \o f

\* s with the parameter tok added at the end of its query
AddParam(s, tok) ==
    SubSeq(s, 1, QueryEnd(s) - 1)
    \o (IF PathEnd(s) = QueryEnd(s) THEN <<"?", tok>>
        ELSE IF s[QueryEnd(s) - 1] = "?" THEN <<tok>>
        ELSE <<"&", tok>>)
    \o SubSeq(s, QueryEnd(s), Len(s))

\* s with one of its tracking parameters replaced by another one
OtherValues(s) ==
    {[s EXCEPT ![i] = tok] :
        i \in {j \in DOMAIN s : s[j] \in TrackingParams},
        tok \in TrackingParams}

ParamAndFragmentVariants(s) ==
    {WithFragment(s, f) : f \in Fragments}
    \cup {AddParam(s, tok) : tok \in TrackingParams}
    \cup OtherValues(s)

IsUrl(s) == s \notin Garbage

C19_NeverRaises ==
    /\ urlPc # "raised"
    /\ (urlPc = "returned" /\ ~IsUrl(rawUrl)) => urlResult = rawUrl

\* a string with a scheme and no host has been returned
C19_Witness ==
    /\ urlPc = "returned"
    /\ rawUrl = <<"http://", "?", "id=1">>
    /\ urlResult = rawUrl

-----------------------------------------------------------------------------
(***************************************************************************)
(* Properties of the forum fan-out.                                        *)
(***************************************************************************)

\* what the threads from position k on contributed: the messages a thread's
\* fetch returned, nothing for a thread whose fetch raised
RECURSIVE ContributedFrom(_)
ContributedFrom(k) ==
    IF k > Len(threads) THEN <<>>
    ELSE (IF threadOutcome[threads[k]].state = "returned"
          THEN threadOutcome[threads[k]].msgs ELSE <<>>)
         \o ContributedFrom(k + 1)

\* C20: no failure of a thread listing or of one thread's message fetch
\* leaves fetchForumChannelMessagesInRange; the list it returns holds, in
\* thread order, the messages of every discovered thread whose fetch
\* returned, and nothing of a thread whose fetch raised.
C20_ForumFailuresAreContained ==
    /\ forumPc # "raised"
    /\ forumPc = "done" => forumResult = ContributedFrom(1)

\* both listings failed at some point, one thread's fetch raised, and the
\* messages of another thread were returned
C20_Witness ==
    /\ forumPc = "done"
    /\ forumLog = {"active", "archived"}
    /\ \E t \in Range(threads), u \in Range(threads) :
        /\ threadOutcome[t].state = "raised"
        /\ threadOutcome[u].state = "returned"
        /\ Len(threadOutcome[u].msgs) = MaxThreadMsgs
        /\ forumResult = threadOutcome[u].msgs

-----------------------------------------------------------------------------
(***************************************************************************)
(* Properties of the end of a run.                                         *)
(***************************************************************************)

\* C21: a run that ends without an error has written an episode, and the
\* collection it was built from lost no channel to a listing failure.
C21_ErrorOrCompleteEpisode ==
    runPc = "done" => (episodes >= 1 /\ listingFailed = {})

-----------------------------------------------------------------------------
(***************************************************************************)
(* Properties of the URLs of a channel.                                    *)
(***************************************************************************)

NoRepeat(list) ==
    \A i \in 1..Len(list), j \in 1..Len(list) : list[i] = list[j] => i = j

\* the time a URL was first shared: the oldest user message that has it
FirstShared(u) ==
    CHOOSE i \in 1..Len(shared) :
        /\ ~shared[i].bot /\ u \in Range(shared[i].urls)
        /\ \A j \in 1..(i - 1) : shared[j].bot \/ u \notin Range(shared[j].urls)

\* C22: fetchArticleContent is called at most maxArticleCount times for a
\* channel and never twice with the same normalized URL; the calls are made
\* for the list that was cut before the batch started, which is the front
\* of the deduplicated list.
C22_FetchesCappedAndDistinct ==
    /\ Len(fetchCalls) <= maxArticleCount
    /\ NoRepeat(fetchCalls)
    /\ fetchCalls # <<>> => (selPc = "fetching" /\ fetchCalls = limitedUrls)
    /\ selPc \in {"batch", "fetching"} =>
        /\ NoRepeat(allUrls)
        /\ limitedUrls = SubSeq(allUrls, 1, Len(limitedUrls))
        /\ Len(limitedUrls) = Min(maxArticleCount, Len(allUrls))

\* three messages share more distinct URLs than the cap, one URL twice
C22_Witness ==
    /\ selPc = "fetching"
    /\ Len(shared) = MaxShared
    /\ Len(FlatUrls(extracted)) > Len(allUrls)
    /\ Len(allUrls) > maxArticleCount
    /\ Len(fetchCalls) = maxArticleCount

\* C23: when URLs were dropped by the cut, no dropped URL was first shared
\* before a kept URL was.
C23_KeptAreSharedFirst ==
    selPc = "fetching" =>
        \A u \in Range(limitedUrls), v \in Range(allUrls) \ Range(limitedUrls) :
            ~(FirstShared(v) < FirstShared(u))

-----------------------------------------------------------------------------
(***************************************************************************)
(* Properties of the Articles.                                             *)
(***************************************************************************)

\* C24: the text of every Article fetchArticleContent returned is absent or
\* at most maxArticleChars characters long.
C24_TextCapped ==
    \A i \in 1..Len(urls) :
        taskPc[i] = "done" => result[i].text <= maxArticleChars

\* C25 as stated: the articles kept are exactly the returned Articles with
\* a title or a text (null being the only absent text).
C25_KeptIffTitleOrText ==
    batchPc = "collected" =>
        /\ \A k \in 1..Len(articles) :
              articles[k].title # "null" \/ articles[k].text # -1
        /\ \A i \in 1..Len(urls) :
              (result[i].title # "null" \/ result[i].text # -1) =>
                  \E k \in 1..Len(articles) : articles[k] = result[i]

\* C25 as amended: the articles kept are exactly the returned Articles with
\* a title or a non-empty text; an Article with no title and the empty
\* string as text is discarded like the empty Article.
C25_KeptIffTitleOrNonEmptyText ==
    batchPc = "collected" =>
        /\ \A k \in 1..Len(articles) :
              articles[k].title # "null" \/ articles[k].text > 0
        /\ \A i \in 1..Len(urls) :
              (result[i].title # "null" \/ result[i].text > 0) =>
                  \E k \in 1..Len(articles) : articles[k] = result[i]

\* a finished batch that discarded an empty Article and an Article with an
\* empty text, and kept one with a text and no title
C25_Witness ==
    /\ batchPc = "collected"
    /\ \E i \in 1..Len(urls) : result[i] = EmptyArticle(i)
    /\ \E i \in 1..Len(urls) : result[i].title = "null" /\ result[i].text = 0
    /\ \E k \in 1..Len(articles) :
          articles[k].title = "null" /\ articles[k].text > 0
    /\ Len(articles) < Len(urls)

\* C27: whatever the order in which the calls of a batch returned, each
\* result is the Article of the URL at its position, and the article list
\* holds the kept results in the order of the URL list.
C27_ListFollowsUrlOrder ==
    batchPc = "collected" =>
        /\ \A i \in 1..Len(urls) : result[i].url = i
        /\ \A k \in 1..Len(articles) :
              articles[k] = result[articles[k].url]
        /\ \A k \in 1..Len(articles), l \in 1..Len(articles) :
              k < l => articles[k].url < articles[l].url

\* the call that returned first was not the one of the first URL, and every
\* Article was kept
C27_Witness ==
    /\ batchPc = "collected"
    /\ Len(urls) = MaxUrls
    /\ firstDone = maxConcurrency
    /\ Len(articles) = MaxUrls

-----------------------------------------------------------------------------
(***************************************************************************)
(* Properties of the order of the TTS requests.                            *)
(***************************************************************************)

\* the requests of the segments before segment k
RECURSIVE RequestsBefore(_)
RequestsBefore(k) ==
    IF k <= 1 THEN 0
    ELSE RequestsBefore(k - 1) + Len(SegmentChunks(ttsProg, segments[k - 1]))

RequestOutstanding ==
    ttsPc \in {"awaiting", "sleeping", "fetchingUrl", "received"}

\* C26: in dialogue mode the request outstanding is the one of the next
\* ordinal, issued when the segments of all lower ordinals are stored; the
\* ordinal of a request is its position in script order (turns, then
\* chunks), and the stored segments carry the ordinals 0, 1, 2, ... in order.
C26_RequestsInOrdinalOrder ==
    ttsProg = "legacy" =>
        /\ Len(files) = index
        /\ \A k \in 1..Len(files) : files[k].ordinal = k - 1
        /\ RequestOutstanding =>
              /\ ttsRequest.idx = index
              /\ ttsRequest.seg = segIdx
              /\ ttsRequest.off = (chunkIdx - 1) * ChunkSize
              /\ ttsRequest.idx = RequestsBefore(segIdx) + chunkIdx - 1

\* a dialogue of MaxTurns turns, one of them cut into chunks, synthesized
\* to the end
C26_Witness ==
    /\ ttsProg = "legacy"
    /\ ttsPc = "done"
    /\ Len(segments) = MaxTurns
    /\ Len(files) > MaxTurns
    /\ files[Len(files)].ordinal = Len(files) - 1

-----------------------------------------------------------------------------
(***************************************************************************)
(* Properties of the --date argument.                                      *)
(***************************************************************************)

\* C28: with a --date value that is not a calendar date (fields that do not
\* parse, fields out of range) the run ends with an error before the
\* message listing of any channel is started.
C28_MalformedDateFailsFast ==
    dateArg \in {"nan", "rollover"} =>
        /\ listingRequests = 0
        /\ runPc \in {"start", "failed"}

-----------------------------------------------------------------------------
(***************************************************************************)
(* Properties of the rate-limit sleep.                                     *)
(***************************************************************************)

\* C29: the sleep after a 429 lasts the retry-after value of that answer,
\* zero included, and one time unit when the answer has none; for the
\* message listing and for the TTS request alike.
C29_SleepIsRetryAfter ==
    /\ pagerPc = "sleeping" =>
          sleepFor = (IF retryHeader = -1 THEN 1 ELSE retryHeader)
    /\ ttsPc = "sleeping" =>
          ttsSleep = (IF ttsResp.retryAfter = -1 THEN 1 ELSE ttsResp.retryAfter)

-----------------------------------------------------------------------------
(***************************************************************************)
(* Properties of the cursor.                                               *)
(***************************************************************************)

\* C30: after a non-empty page the cursor is the id of a message of that
\* page whose timestamp is the oldest of the page, whatever the window
\* filter kept of the page.
C30_CursorIsOldestOfPage ==
    lastPage # <<>> =>
        \E i \in 1..Len(lastPage) :
            /\ before = lastPage[i].id
            /\ \A j \in 1..Len(lastPage) : lastPage[i].ts <= lastPage[j].ts

\* a full page whose messages are all at or after the window end: nothing
\* of it is kept, the cursor has moved and the next request is due
C30_Witness ==
    /\ pagerPc = "request"
    /\ Len(lastPage) = PageLimit
    /\ \A j \in 1..Len(lastPage) : lastPage[j].ts >= endUtc
    /\ collected = <<>>
    /\ before = lastPage[1].id
    /\ before # 0

-----------------------------------------------------------------------------
(***************************************************************************)
(* Properties of the pagination.                                           *)
(***************************************************************************)

\* C31: when a page has been received, a further page is requested if and
\* only if the page holds exactly PageLimit messages and none of them is
\* older than the window start; otherwise the pager returns, with the
\* in-window messages of that page kept; once returned it requests nothing.
C31_FurtherPageIffFullAndNoneOlder ==
    [][/\ (pagerPc = "awaiting" /\ pagesServed' = pagesServed + 1) =>
            /\ pagerPc' \in {"request", "returned"}
            /\ pagerPc' = "request" <=>
                   /\ Len(lastPage') = PageLimit
                   /\ \A i \in 1..Len(lastPage') : lastPage'[i].ts >= startUtc
            /\ Len(collected') - Len(collected) =
                   Cardinality({i \in 1..Len(lastPage') :
                                   /\ lastPage'[i].ts >= startUtc
                                   /\ lastPage'[i].ts < endUtc})
       /\ pagerPc = "returned" => pagerPc' = "returned"]_vars

\* the pager has returned after a second, full page that held a message
\* older than the window start and a message of the window, which it kept
C31_Witness ==
    /\ srcMode = "honest"
    /\ pagerPc = "returned"
    /\ pagesServed = 2
    /\ Len(lastPage) = PageLimit
    /\ \E i \in 1..Len(lastPage) : lastPage[i].ts < startUtc
    /\ \E i \in 1..Len(lastPage) :
          /\ InWindow(lastPage[i], startUtc, endUtc)
          /\ collected[Len(collected)] = lastPage[i]

\* ids agree with timestamps: a message with a greater id is not older
IdsAgreeWithTimestamps(h) ==
    \A i, j \in DOMAIN h : i < j => h[i] <= h[j]

TimesReturned(m) == Cardinality({k \in 1..Len(collected) : collected[k] = m})

\* C32: for a source that follows the cursor and whose ids agree with the
\* timestamps, the list returned holds every message of the history whose
\* timestamp is in [startUtc, endUtc) exactly once.
C32_EveryWindowMessageOnce ==
    (srcMode = "honest" /\ IdsAgreeWithTimestamps(history) /\ pagerPc = "returned")
        => \A m \in HistoryMsgs(history) :
              InWindow(m, startUtc, endUtc) => TimesReturned(m) = 1

-----------------------------------------------------------------------------
(***************************************************************************)
(* Properties of the limiter's queue.                                      *)
(***************************************************************************)

Started(i) == taskPc[i] # "queued"

\* C33: article fetches start in the order of the URL list: no URL has
\* started while a URL before it in the list waits; no slot is idle while a
\* URL waits, and the return of a fetch starts the URL at the head of the
\* queue; and, every fetch completing, every URL is fetched and the batch
\* completes.
C33_FifoStartsAndBatchCompletes ==
    /\ [](\A i, j \in 1..Len(urls) : (i < j /\ Started(j)) => Started(i))
    /\ [](queue # <<>> => activeCount = maxConcurrency)
    /\ [][\A i \in 1..Len(urls) :
            (taskPc[i] # "done" /\ taskPc'[i] = "done" /\ queue # <<>>)
                => (taskPc[Head(queue)] = "queued"
                    /\ taskPc'[Head(queue)] # "queued")]_vars
    /\ <>(/\ batchPc = "collected"
          /\ \A i \in 1..Len(urls) : taskPc[i] = "done" /\ result[i].url = i)

\* the second URL has returned and the third, which had waited, runs in its
\* slot beside the first
C33_Witness ==
    /\ Len(urls) = MaxUrls
    /\ MaxUrls > maxConcurrency
    /\ taskPc[2] = "done"
    /\ 1 \in InFlight
    /\ maxConcurrency + 1 \in InFlight
    /\ firstDone = 2
    /\ queue = <<>>

-----------------------------------------------------------------------------
(***************************************************************************)
(* Properties of the extractor's two paths.                                *)
(***************************************************************************)

PageFetchUnderWay(i) == taskPc[i] \in {"page", "body"}

\* C34: an embed request is made for status URLs only, and before anything
\* else; when it answers, the call returns the Article built from the embed
\* at once, with no page fetch; the page of a status URL is fetched only
\* after its embed request has failed.
C34_EmbedFirstPageOnlyOnFailure ==
    /\ [](\A i \in 1..Len(urls) :
            /\ taskPc[i] = "embed" => urls[i].isX
            /\ i \in embedFailed => urls[i].isX
            /\ (urls[i].isX /\ PageFetchUnderWay(i)) => i \in embedFailed
            /\ (urls[i].isX /\ taskPc[i] = "done" /\ i \notin embedFailed) =>
                    (result[i].title = "t" /\ i \notin pageFailed))
    /\ [][\A i \in 1..Len(urls) :
            /\ (taskPc[i] = "queued" /\ taskPc'[i] # "queued") =>
                    taskPc'[i] = (IF urls[i].isX THEN "embed" ELSE "page")
            /\ (taskPc[i] = "embed" /\ taskPc'[i] # "embed") =>
                    IF i \in embedFailed' THEN taskPc'[i] = "page"
                    ELSE taskPc'[i] = "done" /\ result'[i].url = i]_vars

\* of three URLs, the first is a status URL answered by its embed, the
\* second a status URL whose embed failed and whose page is being read, the
\* third another URL whose page is being fetched
C34_Witness ==
    /\ Len(urls) = 3
    /\ urls[1].isX /\ taskPc[1] = "done" /\ 1 \notin embedFailed
    /\ result[1].title = "t"
    /\ urls[2].isX /\ 2 \in embedFailed /\ taskPc[2] = "body"
    /\ ~urls[3].isX /\ taskPc[3] = "page"

-----------------------------------------------------------------------------
(***************************************************************************)
(* Properties of the thread discovery.                                     *)
(***************************************************************************)

\* the answers after which the listing loop must not go on
EndsListing(a) ==
    \/ a.kind \in {"empty", "failed"}
    \/ /\ a.kind = "page"
       /\ \/ a.lastTs = "none"
          \/ OlderThanStart(a.lastTs)
          \/ ~a.hasMore

\* C35: thread discovery makes at most ArchivedPageCap (10) archived-thread
\* listing requests, whatever the source answers; no further request is
\* made after an empty page, after a page whose last thread was archived
\* before the window start or has no archive timestamp, after an answer
\* with has_more false, or after a failed request.
C35_ArchivedListingsBounded ==
    /\ [](archivedRequests <= ArchivedPageCap)
    /\ [][/\ archivedRequests' = archivedRequests + 1 =>
                /\ forumPc = "archived"
                /\ EndsListing(archivedAnswer') => forumPc' = "fetch"
          /\ forumPc # "archived" => archivedRequests' = archivedRequests]_vars

\* the tenth listing answered a page of recent threads with has_more true,
\* and the discovery ended there
C35_Witness ==
    /\ archivedRequests = ArchivedPageCap
    /\ forumPc = "fetch"
    /\ threadIdx = 1
    /\ archivedAnswer.kind = "page"
    /\ archivedAnswer.lastTs = "recent"
    /\ archivedAnswer.hasMore

ListedUnderForum == listed.active \cup listed.archived

FetchedThreads == {t \in Threads : threadOutcome[t] # NotFetched}

\* C36: the messages of each discovered thread are collected exactly once:
\* the thread ids are distinct however often the listings gave a thread,
\* they are the threads listed under this forum, a fetch is made for a
\* thread not fetched before, every thread has been fetched at the return,
\* a thread listed under another parent only is never fetched, and no
\* fetch is made before the discovery is over (the threads no longer change).
C36_EachThreadFetchedOnce ==
    /\ [](/\ NoRepeat(threads)
          /\ Range(threads) = ListedUnderForum
          /\ FetchedThreads = {threads[k] : k \in 1..(threadIdx - 1)}
          /\ \A t \in listed.foreign \ ListedUnderForum : t \notin FetchedThreads
          /\ forumPc = "done" => FetchedThreads = Range(threads))
    /\ [][/\ threadOutcome' # threadOutcome =>
                /\ forumPc = "fetch"
                /\ threadOutcome[threads[threadIdx]] = NotFetched
                /\ \A t \in Threads \ {threads[threadIdx]} :
                       threadOutcome'[t] = threadOutcome[t]
          /\ forumPc \in {"fetch", "done"} =>
                (threads' = threads /\ listed' = listed)]_vars

\* a thread given by the active listing and by the archived listing was
\* fetched once and gave messages; another thread, active under a different
\* parent, was left alone
C36_Witness ==
    /\ forumPc = "done"
    /\ \E t \in listed.active \cap listed.archived :
          /\ threads = <<t>>
          /\ threadOutcome[t].state = "returned"
          /\ forumResult = threadOutcome[t].msgs
          /\ Len(forumResult) = MaxThreadMsgs
    /\ \E u \in listed.foreign \ ListedUnderForum : threadOutcome[u] = NotFetched

-----------------------------------------------------------------------------
(***************************************************************************)
(* Properties of the chunks of a turn.                                     *)
(***************************************************************************)

\* the request ends the text of its turn
EndsTurn(r) == r.off + r.len = segments[r.seg].len

\* C37: in the dialogue synthesis every request carries a chunk of 1 to
\* ChunkSize (800) characters of its turn, of exactly ChunkSize characters
\* unless it ends the turn; the chunks of a turn follow one another from the
\* first character of the text to the last, with no gap and no overlap, the
\* turns follow in order; and the voice is the one of the turn's speaker.
C37_ChunksCoverTurnInSpeakersVoice ==
    /\ [](ttsProg = "legacy" /\ ttsRequest # NoRequest =>
            /\ ttsRequest.len >= 1
            /\ ttsRequest.len <= ChunkSize
            /\ ttsRequest.off + ttsRequest.len <= segments[ttsRequest.seg].len
            /\ ~EndsTurn(ttsRequest) => ttsRequest.len = ChunkSize
            /\ ttsRequest.voice =
                  (IF segments[ttsRequest.seg].speaker = "A" THEN "voiceA"
                   ELSE "voiceB")
            /\ ttsPc \in {"concat", "ffmpeg", "done"} =>
                  (ttsRequest.seg = Len(segments) /\ EndsTurn(ttsRequest)))
    /\ [][(ttsProg = "legacy" /\ ttsRequest' # ttsRequest) =>
            IF ttsRequest = NoRequest
            THEN ttsRequest'.seg = 1 /\ ttsRequest'.off = 0
            ELSE IF EndsTurn(ttsRequest)
            THEN ttsRequest'.seg = ttsRequest.seg + 1 /\ ttsRequest'.off = 0
            ELSE /\ ttsRequest'.seg = ttsRequest.seg
                 /\ ttsRequest'.off = ttsRequest.off + ttsRequest.len]_vars

\* a dialogue of speaker A then speaker B, B's text one chunk and a rest,
\* synthesized to the end: the last request was the rest, in B's voice
C37_Witness ==
    /\ ttsProg = "legacy"
    /\ ttsPc = "done"
    /\ Len(segments) = 2
    /\ segments[1].speaker = "A"
    /\ segments[2].speaker = "B"
    /\ segments[2].len = MaxTextLen
    /\ MaxTextLen > ChunkSize
    /\ ttsRequest.seg = 2
    /\ ttsRequest.off = ChunkSize
    /\ ttsRequest.len = MaxTextLen - ChunkSize
    /\ ttsRequest.voice = "voiceB"
    /\ Len(files) = 3

-----------------------------------------------------------------------------
(***************************************************************************)
(* Properties of the response normalizer of generate-radio.js.             *)
(***************************************************************************)

\* the four shapes of a 2xx answer
HasRawAudio(r) == r.ctype = "audio"

HasHexAudio(r) ==
    r.json.parsed /\ r.json.data.kind = "obj" /\ r.json.data.audio.has
    /\ r.json.data.audio.str # <<>>

HasAudioUrl(r) ==
    r.json.parsed /\ r.json.audio_url.has /\ r.json.audio_url.str # <<>>

HasBase64Audio(r) ==
    r.json.parsed /\ (r.json.audio_base64.has \/ r.json.data.audio_base64.has)

CarriesShape(r) ==
    HasRawAudio(r) \/ HasHexAudio(r) \/ HasAudioUrl(r) \/ HasBase64Audio(r)

\* base_resp.status_code is there and is not 0
Refused(r) == ~HasRawAudio(r) /\ r.json.parsed /\ r.json.baseResp /\ r.json.code # 0

\* the first base64 candidate
FirstBase64(r) ==
    IF r.json.audio_base64.has THEN r.json.audio_base64.str
    ELSE r.json.data.audio_base64.str

\* the answer has been handled: one buffer, taken by the priority raw body,
\* hex audio, pointer URL, base64 audio
OneBufferByPriority(r) ==
    IF HasRawAudio(r) THEN ttsPc \in {"received", "done"} /\ buf = r.raw
    ELSE IF HasHexAudio(r)
    THEN ttsPc \in {"received", "done"} /\ buf = HexDecode(r.json.data.audio.str)
    ELSE IF HasAudioUrl(r)
    THEN \/ ttsPc \in {"fetchingUrl", "failed"}
         \/ ttsPc \in {"received", "done"} /\ buf = HelloBytes
    ELSE ttsPc \in {"received", "done"} /\ buf = Base64Decode(FirstBase64(r))

Handled == ttsProg = "radio" /\ ttsResp.status = 200 /\ ttsPc # "awaiting"

\* C38 as stated: every 2xx answer that carries one of the four shapes
\* gives one buffer, by the priority raw body, hex audio, pointer URL,
\* base64 audio; the pointer URL is fetched only when there is neither a
\* raw body nor hex audio, and a failed pointer fetch is a hard failure.
C38_AnyShapeGivesOneBuffer ==
    /\ [](Handled /\ CarriesShape(ttsResp) => OneBufferByPriority(ttsResp))
    /\ [](ttsProg = "radio" /\ ttsPc = "fetchingUrl" =>
            (~HasRawAudio(ttsResp) /\ ~HasHexAudio(ttsResp) /\ HasAudioUrl(ttsResp)))
    /\ [][(ttsProg = "radio" /\ ttsPc = "fetchingUrl" /\ buf' = buf) =>
            ttsPc' \in {"fetchingUrl", "failed"}]_vars

\* C38 as amended: the same for every 2xx answer that carries one of the
\* four shapes and is not refused by its envelope (a JSON body with a
\* base_resp.status_code other than 0 is a hard failure whatever audio it
\* carries).
C38_AcceptedShapeGivesOneBuffer ==
    /\ [](Handled /\ CarriesShape(ttsResp) /\ ~Refused(ttsResp) =>
            OneBufferByPriority(ttsResp))
    /\ [](Handled /\ Refused(ttsResp) => ttsPc = "failed")
    /\ [](ttsProg = "radio" /\ ttsPc = "fetchingUrl" =>
            (~HasRawAudio(ttsResp) /\ ~HasHexAudio(ttsResp) /\ HasAudioUrl(ttsResp)))
    /\ [][(ttsProg = "radio" /\ ttsPc = "fetchingUrl" /\ buf' = buf) =>
            ttsPc' \in {"fetchingUrl", "failed"}]_vars

\* an answer with hex audio, a pointer URL and base64 audio gave the bytes
\* of the hex audio
C38_Witness ==
    /\ ttsProg = "radio"
    /\ ttsPc = "done"
    /\ ttsResp = AllFieldsEnvelope
    /\ buf = <<111, 107>>
    /\ episode = <<buf>>

-----------------------------------------------------------------------------
(***************************************************************************)
(* Properties of normalizing twice.                                        *)
(***************************************************************************)

\* C39: normalizeUrl is idempotent: the string it returns is returned as it
\* is when it is normalized again, whatever the input, paths that end in
\* more than one slash included.
C39_NormalizeIsIdempotent ==
    urlPc = "returned" => normalizeUrl(urlResult) = urlResult

-----------------------------------------------------------------------------
(***************************************************************************)
(* Properties of the aggregation modes.                                    *)
(***************************************************************************)

\* C40: in per_channel mode a run that ends has built a script, assembled
\* an episode and saved a run output for every collected channel; in single
\* mode it has built one script and one episode from all channels; and the
\* script stage of generate-radio.js, which calls no service that can
\* refuse, never ends the run with an error.
C40_OneEpisodePerChannelOrOneForAll ==
    /\ []((runPc = "done" /\ runMode = "per_channel") =>
            /\ materials = 1..nChannels
            /\ scriptsBuilt = nChannels
            /\ episodes = nChannels
            /\ outputsSaved = nChannels)
    /\ []((runPc = "done" /\ runMode = "single") =>
            /\ materials = 1..nChannels
            /\ scriptsBuilt = 1
            /\ episodes = 1
            /\ outputsSaved = 1)
    /\ [][(runProg = "radio" /\ runPc = "script") =>
            runPc' \in {"script", "synth"}]_vars

=============================================================================
